---- MODULE Spec2Model ----
(***************************************************************************)
(* Credential and token mediation layer of mcp-instana.                    *)
(*                                                                         *)
(*   SpecOAuth   : SimpleOAuthProvider (src/core/auth_handler/oauth.py)    *)
(*   SpecDTC     : DynamicTokenClient                                      *)
(*                 (src/core/auth_handler/dynamic_token_client.py)         *)
(*   SpecWrapper : with_header_auth.wrapper (src/core/utils.py)            *)
(*   SpecJWT     : TokenVerifier (src/core/jwt_auth.py)                    *)
(*                                                                         *)
(* Python values: None is the string NoneV, dictionaries are functions     *)
(* whose DOMAIN is the set of keys present (self.tokens, whose insertion   *)
(* order the code reads, is a sequence of entries), opaque random strings  *)
(* (secrets.token_hex) are drawn in order from FreshIds, and a prefixed    *)
(* string f"{prefix}{x}" is the pair <<prefix, x>>.                         *)
(* Each specification starts the other components as constructed and       *)
(* leaves them alone.                                                       *)
(***************************************************************************)
EXTENDS Integers, Sequences, FiniteSets, TLC

VARIABLES
    now,                  \* time.time(), in seconds
    ticks,                \* number of clock advances so far
    \* ---- SimpleOAuthProvider
    state_mapping,        \* self.state_mapping : state -> state_data
    auth_codes,           \* self.auth_codes    : code  -> AuthorizationCode
    tokens,               \* self.tokens        : insertion-ordered dict
    token_mapping,        \* self.token_mapping
    instana_jwt_mapping,  \* self.instana_jwt_mapping
    callbacks,            \* handle_callback coroutines (suspended at the POST)
    nextCode,             \* index of the next unused secrets.token_hex(16) value
    nextToken,            \* index of the next unused secrets.token_hex(32) value
    consumed,             \* history: codes a successful exchange has consumed
    dropped,              \* history: tokens load_access_token dropped as expired
    failed,               \* history: a handle_callback call has raised
    jwt_lookup,           \* the last get_instana_jwt_token call: its argument
                          \* and what it returned
    \* ---- DynamicTokenClient
    auth_data,            \* self.auth_data : the token endpoint configuration
    headers,              \* self.headers   : the construction headers
    _access_token,        \* self._access_token
    _expires_at,          \* self._expires_at
    reqs,                 \* request() coroutines (suspended at the token request)
    wire,                 \* the last thing a request() call did: what it handed
                          \* to the transport or the exception it raised, and
                          \* the token endpoint's answer that led to it
    \* ---- a tool object and with_header_auth.wrapper
    read_token,           \* self.read_token
    base_url,             \* self.base_url
    api_attr,             \* self has a *_api attribute of the wrapped API class
    _auth_provider_registry,  \* with_header_auth._auth_provider_registry: name ->
                          \* the instana_jwt_mapping of the registered provider
    http_headers,         \* what get_http_headers() returns for the request
    os_environ,           \* os.environ, as far as the wrapper reads it
    wrapper,              \* the wrapper call: where it is, what it detected
    invoked,              \* the API clients func was invoked with in this call
    returned,             \* what the last wrapper call returned
    \* ---- TokenVerifier
    verifier,             \* the TokenVerifier: public_key, jwks_uri, audience,
                          \* algorithm, required_scopes
    jwt_token,            \* the token the request presents
    validation,           \* what the last validate_jwt_token call returned
    validated_at,         \* history: the time of that call
    _jwks_keys,           \* self._jwks_keys : kid -> JWK
    _last_jwks_fetch,     \* self._last_jwks_fetch
    jwks_gets,            \* history: the times of the GETs to the JWKS URI
    jwt_claims,           \* the claims get_instana_credentials_from_jwt is given
    credentials,          \* what the last such call returned
    \* ---- DynamicTokenManager
    manager,              \* the manager: auth_strategy, login_url, username,
                          \* password
    login,                \* get_authenticated_http_client_for_jsessionid:
                          \* where the call is (suspended at the login POST
                          \* or not), the number of calls made, and what the
                          \* last call returned or raised
    login_posts           \* history: the login POSTs sent

oauthVars == <<state_mapping, auth_codes, tokens, token_mapping,
               instana_jwt_mapping, callbacks, nextCode, nextToken,
               consumed, dropped, failed, jwt_lookup>>

dtcVars == <<auth_data, headers, _access_token, _expires_at, reqs, wire>>

wrapVars == <<read_token, base_url, api_attr, _auth_provider_registry,
              http_headers, os_environ, wrapper, invoked, returned>>

jwtVars == <<verifier, jwt_token, validation, validated_at, _jwks_keys,
             _last_jwks_fetch, jwks_gets, jwt_claims, credentials>>

managerVars == <<manager, login, login_posts>>

vars == <<now, ticks, oauthVars, dtcVars, wrapVars, jwtVars, managerVars>>

\* What a step of one component leaves alone.
outsideOAuth == <<dtcVars, wrapVars, jwtVars, managerVars>>
outsideDTC == <<oauthVars, wrapVars, jwtVars, managerVars>>
outsideWrapper == <<now, ticks, oauthVars, dtcVars, jwtVars, managerVars>>
outsideJWT == <<oauthVars, dtcVars, wrapVars, managerVars>>
outsideManager == <<now, ticks, oauthVars, dtcVars, wrapVars, jwtVars>>

\* ------------------------------------------------------------------ bounds
MaxOps == 3          \* codes minted + tokens minted + clock advances, in all
MaxCodes == 2        \* authorization codes minted in one behaviour
MaxTokens == 2       \* MCP tokens minted in one behaviour
MaxTicks == 2        \* clock advances in one behaviour

\* ------------------------------------------------------- program constants
CODE_TTL == 300      \* oauth.py:260
_jwks_cache_duration == 3600     \* jwt_auth.py:57
TOKEN_TTL == 3600    \* oauth.py:317

\* ------------------------------------------------------------ Python values
NoneV == "<None>"

\* Truthiness of a str | None value.
Truthy(x) == x # NoneV /\ x # ""

\* a or b
PyOr(a, b) == IF Truthy(a) THEN a ELSE b

\* d.get(k) on a dictionary modelled as a function
Get(d, k) == IF k \in DOMAIN d THEN d[k] ELSE NoneV

\* d[k] = v
Put(d, k, v) == [x \in DOMAIN d \cup {k} |-> IF x = k THEN v ELSE d[x]]

\* del d[k]   (the caller has checked k in d)
Del(d, k) == [x \in DOMAIN d \ {k} |-> d[x]]

EmptyDict == [x \in {} |-> NoneV]

\* ---- insertion-ordered dictionary: a sequence of [key, val] entries
RECURSIVE OIndex(_, _)
OIndex(od, k) ==
    IF od = <<>> THEN 0
    ELSE IF od[Len(od)].key = k THEN Len(od)
    ELSE OIndex(SubSeq(od, 1, Len(od) - 1), k)

OKeys(od) == {od[i].key : i \in 1..Len(od)}

OHas(od, k) == k \in OKeys(od)

OGet(od, k) == od[OIndex(od, k)].val

\* od[k] = v : an existing key keeps its position, a new key goes last
OPut(od, k, v) ==
    IF OHas(od, k)
    THEN [od EXCEPT ![OIndex(od, k)] = [key |-> k, val |-> v]]
    ELSE Append(od, [key |-> k, val |-> v])

\* del od[k]
ODel(od, k) ==
    LET i == OIndex(od, k)
    IN SubSeq(od, 1, i - 1) \o SubSeq(od, i + 1, Len(od))

\* ------------------------------------------------------------------ inputs
Clients == {"c1", "c2"}
States == {<<"state", "s1">>}
FreshIds == <<"n1", "n2", "n3", "n4", "n5", "n6", "n7", "n8">>
Unissued == "n0"     \* a value secrets.token_hex never returned
UpTokens == {"u1", "u2"}

Code(n) == <<"mcp_16", n>>           \* f"mcp_{secrets.token_hex(16)}"
McpToken(n) == <<"mcp_32", n>>       \* f"mcp_{secrets.token_hex(32)}"
AuthKey(u) == <<"auth_", u>>         \* f"auth_{auth_token}"
Raw(u) == <<"", u>>                  \* the upstream token itself
AuthKeys == {AuthKey(u) : u \in UpTokens}

\* token.startswith("auth_")
StartsWithAuth(k) == k[1] = "auth_"

\* JSON bodies of the upstream token endpoint: the fields present, by name
FieldValues(f) ==
    CASE f = "error" -> {"access_denied"}
      [] f = "id_token" -> {"", "u1"}
      [] f = "access_token" -> {"", "u2"}

UpstreamBodies ==
    UNION {{b \in [S -> {"", "access_denied", "u1", "u2"}] :
                \A f \in S : b[f] \in FieldValues(f)} :
           S \in SUBSET {"error", "id_token", "access_token"}}

UpstreamResponses ==
    {[status_code |-> 400, data |-> EmptyDict]}
    \cup {[status_code |-> 200, data |-> b] : b \in UpstreamBodies}

CbIds == {"cb1", "cb2"}    \* the handle_callback coroutines that may be in flight

IdleCb == [pc |-> "idle", state |-> <<>>, client_id |-> NoneV]

\* An optional value: <<>> is None, <<v>> is v.
Nothing == <<>>
Some(v) == <<v>>

\* The clock advances to the expiry of a token minted at the last instant,
\* or just past it.
TickSteps == {TOKEN_TTL, TOKEN_TTL + 1}

\* What one behaviour has used of MaxOps.
Spent == (nextCode - 1) + (nextToken - 1) + ticks

\* --------------------------------------------------------------------- Init
\* SimpleOAuthProvider.__init__ (oauth.py:114-135): every map is empty.
ProviderInit ==
    /\ now = 0
    /\ ticks = 0
    /\ state_mapping = EmptyDict
    /\ auth_codes = EmptyDict
    /\ tokens = <<>>
    /\ token_mapping = EmptyDict
    /\ instana_jwt_mapping = EmptyDict
    /\ callbacks = [p \in CbIds |-> IdleCb]
    /\ nextCode = 1
    /\ nextToken = 1
    /\ consumed = {}
    /\ dropped = {}
    /\ failed = FALSE
    /\ jwt_lookup = [mcp_token |-> Nothing, value |-> Nothing]

\* A request record as the transport (httpx) receives it.
NoRequest == [method |-> "", url |-> "", headers |-> EmptyDict,
              auth |-> <<>>, body |-> <<>>]

\* No answer of the token endpoint.
NoAnswer == [kind |-> "none", error |-> "", status_code |-> 0, json |-> <<>>]

NoWire == [kind |-> "none", via |-> "", depth |-> 0, answer |-> NoAnswer,
           req |-> NoRequest, error |-> ""]

ReqIds == {"r1", "r2"}     \* the request() coroutines that may be in flight

IdleReq == [pc |-> "idle", url |-> "", headers |-> EmptyDict]

\* DynamicTokenClient.__init__ (dynamic_token_client.py:24-47) with the given
\* auth_data and headers: no token, expiry 0.
ClientInit(ad, h) ==
    /\ auth_data = ad
    /\ headers = h
    /\ _access_token = NoneV
    /\ _expires_at = 0
    /\ reqs = [r \in ReqIds |-> IdleReq]
    /\ wire = NoWire

\* A tool object constructed with the given credentials
\* (BaseInstanaClient.__init__, utils.py:322-324), no wrapper call made yet.
IdleWrapper == [pc |-> "idle", mode |-> "", http |-> FALSE]

NoReturn == [kind |-> "none", error |-> ""]

ToolInit(rt, bu, attr, registry) ==
    /\ read_token = rt
    /\ base_url = bu
    /\ api_attr = attr
    /\ _auth_provider_registry = registry
    /\ wrapper = IdleWrapper
    /\ invoked = <<>>
    /\ returned = NoReturn

\* The request the tool is called in carries the given headers, and the
\* process runs in the given environment.
RequestInit(hdrs, env) ==
    /\ http_headers = hdrs
    /\ os_environ = env

NoHeaders == [instana_jwt_token |-> Nothing, instana_base_url |-> Nothing,
              authorization |-> Nothing]

NoEnvironment == [ENABLE_OAUTH |-> Nothing, INSTANA_BASE_URL |-> Nothing]

\* TokenVerifier.__init__ (jwt_auth.py:30-57); required_scopes or [].
TokenVerifierInit(public_key, jwks_uri, audience, algorithm, required_scopes) ==
    /\ verifier = [public_key |-> public_key, jwks_uri |-> jwks_uri,
                   audience |-> audience, algorithm |-> algorithm,
                   required_scopes |-> required_scopes]
    /\ _jwks_keys = EmptyDict
    /\ _last_jwks_fetch = 0
    /\ jwks_gets = <<>>
    /\ validation = [valid |-> FALSE, claims |-> <<>>, error |-> "<none yet>"]
    /\ validated_at = Nothing

\* A string that is no JWT: jwt.get_unverified_header cannot parse it.
Garbage == [wellformed |-> FALSE, alg |-> "", kid |-> Nothing, key |-> "",
            payload |-> [sub |-> Nothing, aud |-> Nothing, exp |-> Nothing,
                         iat |-> Nothing, scope |-> Nothing]]

\* A claims dictionary with none of the credential claims.
NoCredentialClaims ==
    [instana_token |-> Nothing, instana_api_token |-> Nothing,
     instana_base_url |-> Nothing, instana_url |-> Nothing]

\* The claims get_instana_credentials_from_jwt will be given, and no call
\* of it made.
ClaimsInit(claims) ==
    /\ jwt_claims = claims
    /\ credentials = [called |-> FALSE, value |-> Nothing]

\* A verifier with the defaults of the constructor, and no JWT presented.
VerifierIdle ==
    /\ TokenVerifierInit(NoneV, NoneV, NoneV, "RS256", <<>>)
    /\ jwt_token = Garbage
    /\ ClaimsInit(NoCredentialClaims)

\* DynamicTokenManager.__init__ (dynamic_token_manager.py:20-38): the login
\* fields are taken from the keyword arguments with None as default, and
\* only with the jsessionid strategy.
ManagerInit(auth_strategy, login_url, username, password) ==
    /\ manager = [auth_strategy |-> auth_strategy,
                  login_url |-> IF auth_strategy = "jsessionid"
                                THEN login_url ELSE NoneV,
                  username |-> IF auth_strategy = "jsessionid"
                               THEN username ELSE NoneV,
                  password |-> IF auth_strategy = "jsessionid"
                               THEN password ELSE NoneV]
    /\ login = [pc |-> "idle", calls |-> 0,
                result |-> [kind |-> "none yet", headers |-> EmptyDict,
                            error |-> ""]]
    /\ login_posts = <<>>

\* A manager constructed without an authentication strategy.
ManagerIdle == ManagerInit(NoneV, NoneV, NoneV, NoneV)

Init ==
    /\ ProviderInit
    /\ ClientInit(EmptyDict, EmptyDict)
    /\ ToolInit(NoneV, NoneV, FALSE, EmptyDict)
    /\ RequestInit(NoHeaders, NoEnvironment)
    /\ VerifierIdle
    /\ ManagerIdle

\* ------------------------------------------------------ SimpleOAuthProvider

\* authorize (oauth.py:145-183): records the state-to-context mapping under
\* params.state, or under a random value when the client gave none, and
\* returns the upstream authorization URL.
authorize(c, s) ==
    /\ state_mapping' = Put(state_mapping, s, [client_id |-> c])
    /\ UNCHANGED outsideOAuth
    /\ UNCHANGED <<now, ticks, jwt_lookup,
                   failed, auth_codes, tokens, token_mapping,
                   instana_jwt_mapping, callbacks, nextCode, nextToken,
                   consumed, dropped>>

\* handle_callback up to its suspension at the upstream POST
\* (oauth.py:193-222): an unknown state raises HTTPException(400, "Invalid
\* state parameter"); a known one is read, not deleted, and the coroutine
\* waits for the token endpoint.
InvalidState(mapping, s) == ~(s \in DOMAIN mapping)

handle_callback_begin(p, s) ==
    /\ callbacks[p].pc = "idle"
    /\ IF InvalidState(state_mapping, s)
       THEN failed' = TRUE /\ UNCHANGED callbacks
       ELSE /\ callbacks' = [callbacks EXCEPT ![p] =
                    [pc |-> "posting", state |-> s,
                     client_id |-> state_mapping[s].client_id]]
            /\ UNCHANGED failed
    /\ UNCHANGED outsideOAuth
    /\ UNCHANGED <<now, ticks, jwt_lookup,
                   state_mapping, auth_codes, tokens, token_mapping,
                   instana_jwt_mapping, nextCode, nextToken, consumed, dropped>>

\* auth_token = data.get("id_token") or data.get("access_token")
AuthToken(data) == PyOr(Get(data, "id_token"), Get(data, "access_token"))

\* a check of the upstream response that overlooks its "error" field
UpstreamErrorBlind(response) ==
    IF response.status_code # 200 THEN "Failed to exchange code for token"
    ELSE IF ~Truthy(AuthToken(response.data))
    THEN "No valid authentication token found in response."
    ELSE NoneV

\* The exception handle_callback raises once the upstream response is in
\* (oauth.py:226-242), NoneV if the response is accepted.
UpstreamError(response) ==
    IF response.status_code # 200 THEN "Failed to exchange code for token"
    ELSE IF "error" \in DOMAIN response.data THEN "OAuth error"
    ELSE IF ~Truthy(AuthToken(response.data))
    THEN "No valid authentication token found in response."
    ELSE NoneV

\* handle_callback from the upstream response to its return (oauth.py:224-286)
handle_callback_resume(p, response) ==
    LET s == callbacks[p].state
        client_id == callbacks[p].client_id
        auth_token == AuthToken(response.data)
        instana_jwt_token == auth_token
        new_code == Code(FreshIds[nextCode])
    IN
    /\ callbacks[p].pc = "posting"
    /\ callbacks' = [callbacks EXCEPT ![p] = IdleCb]
    /\ IF UpstreamError(response) # NoneV
       THEN /\ failed' = TRUE
            /\ UNCHANGED <<state_mapping, auth_codes, tokens, token_mapping,
                           instana_jwt_mapping, nextCode>>
       ELSE /\ Spent < MaxOps /\ nextCode <= MaxCodes
            /\ failed' = (failed \/ s \notin DOMAIN state_mapping)
            /\ nextCode' = nextCode + 1
            /\ auth_codes' = Put(auth_codes, new_code,
                   [client_id |-> client_id, expires_at |-> Some(now + CODE_TTL)])
            /\ tokens' = OPut(tokens, AuthKey(auth_token),
                   [client_id |-> client_id, expires_at |-> Nothing])
            /\ token_mapping' = Put(token_mapping, new_code, Raw(auth_token))
            /\ instana_jwt_mapping' =
                   Put(instana_jwt_mapping, new_code, instana_jwt_token)
            \* del self.state_mapping[state], once everything is stored:
            \* the call raises KeyError here if another callback has
            \* deleted the entry meanwhile
            /\ state_mapping' = IF s \in DOMAIN state_mapping
                                THEN Del(state_mapping, s)
                                ELSE state_mapping
    /\ UNCHANGED outsideOAuth
    /\ UNCHANGED <<now, ticks, jwt_lookup, nextToken, consumed, dropped>>

\* the last such key, in insertion order
RECURSIVE LastAuthToken(_, _)
LastAuthToken(od, c) ==
    IF od = <<>> THEN Nothing
    ELSE IF StartsWithAuth(od[Len(od)].key) /\ od[Len(od)].val.client_id = c
    THEN Some(od[Len(od)].key)
    ELSE LastAuthToken(SubSeq(od, 1, Len(od) - 1), c)

\* The first key of self.tokens, in insertion order, that starts with "auth_"
\* and belongs to the client (oauth.py:322-329); Nothing if there is none.
RECURSIVE FirstAuthToken(_, _)
FirstAuthToken(od, c) ==
    IF od = <<>> THEN Nothing
    ELSE IF StartsWithAuth(Head(od).key) /\ Head(od).val.client_id = c
    THEN Some(Head(od).key)
    ELSE FirstAuthToken(Tail(od), c)

\* an exchange that takes any code
ExchangeErrorNever(codes, code) == NoneV

\* The exception exchange_authorization_code raises (oauth.py:304-306)
ExchangeError(codes, code) ==
    IF ~(code \in DOMAIN codes) THEN "Invalid authorization code" ELSE NoneV

\* exchange_authorization_code that leaves the consumed code in place
exchange_keeps_code(c, code) ==
    LET mcp_token == McpToken(FreshIds[nextToken])
        tokens1 == OPut(tokens, mcp_token,
                        [client_id |-> c, expires_at |-> Some(now + TOKEN_TTL)])
        auth_token == FirstAuthToken(tokens1, c)
    IN
    /\ IF ExchangeError(auth_codes, code) # NoneV
       THEN UNCHANGED <<auth_codes, tokens, token_mapping,
                        instana_jwt_mapping, nextToken, consumed>>
       ELSE /\ Spent < MaxOps /\ nextToken <= MaxTokens
            /\ nextToken' = nextToken + 1
            /\ tokens' = tokens1
            /\ token_mapping' =
                   IF auth_token # Nothing
                   THEN Put(token_mapping, mcp_token, auth_token[1])
                   ELSE token_mapping
            /\ instana_jwt_mapping' =
                   IF code \in DOMAIN instana_jwt_mapping
                   THEN Del(Put(instana_jwt_mapping, mcp_token,
                                instana_jwt_mapping[code]), code)
                   ELSE instana_jwt_mapping
            /\ auth_codes' = auth_codes
            /\ consumed' = consumed \cup {code}
    /\ UNCHANGED outsideOAuth
    /\ UNCHANGED <<now, ticks, jwt_lookup,
                   failed, state_mapping, callbacks, nextCode, dropped>>

\* exchange_authorization_code (oauth.py:294-362); it returns the new MCP
\* token as a bearer token response.
exchange_authorization_code(c, code) ==
    LET mcp_token == McpToken(FreshIds[nextToken])
        tokens1 == OPut(tokens, mcp_token,
                        [client_id |-> c, expires_at |-> Some(now + TOKEN_TTL)])
        auth_token == FirstAuthToken(tokens1, c)
    IN
    /\ IF ExchangeError(auth_codes, code) # NoneV
       THEN UNCHANGED <<auth_codes, tokens, token_mapping,
                        instana_jwt_mapping, nextToken, consumed>>
       ELSE /\ Spent < MaxOps /\ nextToken <= MaxTokens
            /\ nextToken' = nextToken + 1
            /\ tokens' = tokens1
            /\ token_mapping' =
                   IF auth_token # Nothing
                   THEN Put(token_mapping, mcp_token, auth_token[1])
                   ELSE token_mapping
            /\ instana_jwt_mapping' =
                   IF code \in DOMAIN instana_jwt_mapping
                   THEN Del(Put(instana_jwt_mapping, mcp_token,
                                instana_jwt_mapping[code]), code)
                   ELSE instana_jwt_mapping
            /\ auth_codes' = Del(auth_codes, code)
            /\ consumed' = consumed \cup {code}
    /\ UNCHANGED outsideOAuth
    /\ UNCHANGED <<now, ticks, jwt_lookup,
                   failed, state_mapping, callbacks, nextCode, dropped>>

\* an expiry check that never fires
ExpiredNever(access_token, t) == FALSE

\* access_token.expires_at and access_token.expires_at < time.time()
Expired(access_token, t) ==
    /\ access_token.expires_at # Nothing
    /\ access_token.expires_at[1] # 0
    /\ access_token.expires_at[1] < t

\* What load_access_token returns (oauth.py:369-381): the record, or Nothing
LoadResult(od, token, t) ==
    IF ~OHas(od, token) THEN Nothing
    ELSE IF Expired(OGet(od, token), t) THEN Nothing
    ELSE Some(OGet(od, token))

\* load_access_token (oauth.py:364-381)
load_access_token(token) ==
    /\ IF OHas(tokens, token) /\ Expired(OGet(tokens, token), now)
       THEN /\ tokens' = ODel(tokens, token)
            /\ dropped' = dropped \cup {token}
       ELSE UNCHANGED <<tokens, dropped>>
    /\ UNCHANGED outsideOAuth
    /\ UNCHANGED <<now, ticks, jwt_lookup,
                   failed, state_mapping, auth_codes, token_mapping,
                   instana_jwt_mapping, callbacks, nextCode, nextToken,
                   consumed>>

\* a revocation that records a tombstone for a token it does not know
revoke_token_marks(token) ==
    /\ tokens' = IF OHas(tokens, token) THEN ODel(tokens, token)
                 ELSE Append(tokens, [key |-> token,
                         val |-> [client_id |-> NoneV, expires_at |-> Some(0)]])
    /\ instana_jwt_mapping' =
           IF token \in DOMAIN instana_jwt_mapping
           THEN Del(instana_jwt_mapping, token)
           ELSE instana_jwt_mapping
    /\ UNCHANGED outsideOAuth
    /\ UNCHANGED <<now, ticks, jwt_lookup,
                   failed, state_mapping, auth_codes, token_mapping,
                   callbacks, nextCode, nextToken, consumed, dropped>>

\* a revocation that drops every token of the revoked token's client
revoke_token_of_client(token) ==
    /\ tokens' = IF OHas(tokens, token)
                 THEN SelectSeq(tokens, LAMBDA e :
                          e.val.client_id # OGet(tokens, token).client_id)
                 ELSE tokens
    /\ instana_jwt_mapping' =
           IF token \in DOMAIN instana_jwt_mapping
           THEN Del(instana_jwt_mapping, token)
           ELSE instana_jwt_mapping
    /\ UNCHANGED outsideOAuth
    /\ UNCHANGED <<now, ticks, jwt_lookup,
                   failed, state_mapping, auth_codes, token_mapping,
                   callbacks, nextCode, nextToken, consumed, dropped>>

\* revoke_token (oauth.py:398-404)
revoke_token(token) ==
    /\ tokens' = IF OHas(tokens, token) THEN ODel(tokens, token) ELSE tokens
    /\ instana_jwt_mapping' =
           IF token \in DOMAIN instana_jwt_mapping
           THEN Del(instana_jwt_mapping, token)
           ELSE instana_jwt_mapping
    /\ UNCHANGED outsideOAuth
    /\ UNCHANGED <<now, ticks, jwt_lookup,
                   failed, state_mapping, auth_codes, token_mapping,
                   callbacks, nextCode, nextToken, consumed, dropped>>

\* get_instana_jwt_token (oauth.py:406-415):
\* self.instana_jwt_mapping.get(mcp_token)
get_instana_jwt_token(mapping, mcp_token) ==
    IF mcp_token \in DOMAIN mapping THEN Some(mapping[mcp_token]) ELSE Nothing

\* A call of get_instana_jwt_token (oauth.py:406-415): it reads the mapping
\* and returns what it found.
call_get_instana_jwt_token(mcp_token) ==
    /\ jwt_lookup' = [mcp_token |-> Some(mcp_token),
                      value |-> get_instana_jwt_token(instana_jwt_mapping,
                                                      mcp_token)]
    /\ UNCHANGED outsideOAuth
    /\ UNCHANGED <<now, ticks, failed, state_mapping, auth_codes, tokens,
                   token_mapping, instana_jwt_mapping, callbacks, nextCode,
                   nextToken, consumed, dropped>>

\* time passes between two steps
OAuthTick(d) ==
    /\ Spent < MaxOps /\ ticks < MaxTicks
    /\ ticks' = ticks + 1
    /\ now' = now + d
    /\ UNCHANGED oauthVars
    /\ UNCHANGED outsideOAuth

\* The keys a caller can present: every key the provider has issued, and one
\* it never issued.
IssuedCodes == {Code(FreshIds[i]) : i \in 1..(nextCode - 1)}
IssuedTokens == {McpToken(FreshIds[i]) : i \in 1..(nextToken - 1)}
CodeArgs == IssuedCodes \cup {Code(Unissued)}
TokenArgs == IssuedTokens \cup IssuedCodes \cup AuthKeys \cup {McpToken(Unissued)}

OAuthNext ==
    \/ \E c \in Clients, s \in States : authorize(c, s)
    \/ \E p \in CbIds, s \in States : handle_callback_begin(p, s)
    \/ \E p \in CbIds, r \in UpstreamResponses : handle_callback_resume(p, r)
    \/ \E c \in Clients, code \in CodeArgs : exchange_authorization_code(c, code)
    \/ \E t \in TokenArgs : load_access_token(t)
    \/ \E t \in TokenArgs : revoke_token(t)
    \/ \E d \in TickSteps : OAuthTick(d)

SpecOAuth == Init /\ [][OAuthNext]_vars

\* The provider with the callers of get_instana_jwt_token beside those of
\* its other operations: one handle_callback coroutine at a time, and an
\* upstream that refuses or answers with an id_token.
PlainUpstreamResponses ==
    {r \in UpstreamResponses :
        r.status_code # 200 \/ DOMAIN r.data = {"id_token"}}

LookupNext ==
    \/ \E c \in Clients, s \in States : authorize(c, s)
    \/ \E s \in States : handle_callback_begin("cb1", s)
    \/ \E r \in PlainUpstreamResponses : handle_callback_resume("cb1", r)
    \/ \E c \in Clients, code \in CodeArgs : exchange_authorization_code(c, code)
    \/ \E t \in TokenArgs : load_access_token(t)
    \/ \E t \in TokenArgs : revoke_token(t)
    \/ \E t \in TokenArgs : call_get_instana_jwt_token(t)
    \/ \E d \in TickSteps : OAuthTick(d)

SpecLookup == Init /\ [][LookupNext]_vars

\* ------------------------------------------------------- DynamicTokenClient
DEFAULT_TOKEN_EXPIRY == 3600     \* dynamic_token_client.py:19
TOKEN_REFRESH_BUFFER == 60       \* dynamic_token_client.py:20

MaxDepth == 3        \* call depth at which the interpreter raises RecursionError

\* d.get(k, default)
GetOr(d, k, default) == IF k \in DOMAIN d THEN d[k] ELSE default

\* str(x)
Str(x) == IF x = NoneV THEN "None" ELSE x

\* s.lower(), on the strings the configurations below hold
Lower(s) ==
    CASE s = "POST" -> "post"
      [] s = "GET" -> "get"
      [] s = "True" -> "true"
      [] s = "False" -> "false"
      [] OTHER -> s

\* base64.b64encode(s.encode()).decode()
B64(s) == "b64(" \o s \o ")"

\* f"Bearer {token}"
Bearer(token) == "Bearer " \o Str(token)

\* The environment-value resolver: a configured value that names an
\* environment variable stands for that variable's value, any other value
\* for itself.
Environ == [v \in {"${APIKEY}"} |-> "k2"]

resolve_env_value(v) == IF v \in DOMAIN Environ THEN Environ[v] ELSE v

\* URLs, and str(url).startswith(str(prefix)) on them
TOKEN_URL == "https://iam/token"
RequestUrls == {TOKEN_URL, "https://iam/token/v2", "https://api/data"}

Prefixes(url) ==
    IF url = "https://iam/token/v2" THEN {url, TOKEN_URL} ELSE {url}

StartsWith(url, prefix) == prefix \in Prefixes(url)

\* The auth_data a client may be constructed with.
AuthDatas == {
    EmptyDict,
    ("apikey" :> "k1" @@ "token_gen_auth_method" :> "jwt"),
    ("token_url" :> TOKEN_URL @@ "id" :> "i1" @@ "token_gen_auth_method" :> "basic"),
    ("token_url" :> TOKEN_URL @@ "apikey" :> "${APIKEY}"
        @@ "token_gen_auth_method" :> "jwt"),
    ("token_url" :> TOKEN_URL @@ "id" :> "i1" @@ "secret" :> "s1"
        @@ "token_gen_auth_method" :> "jwt"),
    ("token_url" :> TOKEN_URL @@ "id" :> "i1" @@ "secret" :> "s1"
        @@ "token_gen_auth_method" :> "basic"),
    ("token_url" :> TOKEN_URL @@ "id" :> "i1" @@ "secret" :> "s1"
        @@ "token_gen_auth_method" :> "basic" @@ "token_gen_method" :> "POST"),
    ("token_url" :> TOKEN_URL @@ "apikey" :> "k1"
        @@ "token_gen_auth_method" :> "basic"),
    ("token_url" :> TOKEN_URL @@ "apikey" :> "k1") }

\* The construction headers, and the headers a caller passes to request().
InitHeaders == {("Authorization" :> "Basic init" @@ "Accept" :> "text/xml")}
CallerHeaders ==
    {EmptyDict, ("Authorization" :> "Basic call" @@ "Content-Type" :> "text/plain")}

InitDTC ==
    /\ ProviderInit
    /\ \E ad \in AuthDatas, h \in InitHeaders : ClientInit(ad, h)
    /\ ToolInit(NoneV, NoneV, FALSE, EmptyDict)
    /\ RequestInit(NoHeaders, NoEnvironment)
    /\ VerifierIdle
    /\ ManagerIdle

\* The ValueError _refresh_token raises before it sends anything
\* (dynamic_token_client.py:51-64), NoneV if the configuration passes.
RefreshConfigError(ad) ==
    LET _id == resolve_env_value(Get(ad, "id"))
        _secret == resolve_env_value(Get(ad, "secret"))
        apikey == resolve_env_value(Get(ad, "apikey"))
        token_url == Get(ad, "token_url")
    IN
    IF ad = EmptyDict THEN "Missing auth_data for token refresh."
    ELSE IF ~Truthy(token_url) THEN "token_url must be provided in auth_data."
    ELSE IF ~Truthy(apikey) /\ ~(Truthy(_id) /\ Truthy(_secret))
    THEN "Either apikey or (id and secret) must be provided in auth_data."
    ELSE NoneV

\* The token request _refresh_token sends (dynamic_token_client.py:68-100)
TokenRequest(ad) ==
    LET _id == resolve_env_value(Get(ad, "id"))
        _secret == resolve_env_value(Get(ad, "secret"))
        apikey == resolve_env_value(Get(ad, "apikey"))
        token_url == Get(ad, "token_url")
        auth_generation_method == GetOr(ad, "token_gen_auth_method", "")
    IN
    IF auth_generation_method = "jwt" /\ Truthy(apikey)
    THEN [method |-> "POST", url |-> token_url,
          headers |-> ("Content-Type" :> "application/json"
                       @@ "Accept" :> "application/json"),
          auth |-> <<>>,
          body |-> <<"json", "apikey", apikey>>]
    ELSE IF auth_generation_method = "basic"
    THEN [method |-> IF Lower(GetOr(ad, "token_gen_method", "get")) = "post"
                     THEN "POST" ELSE "GET",
          url |-> token_url,
          headers |-> ("Accept" :> "application/json"
                       @@ "Authorization" :>
                            ("Basic " \o B64(Str(_id) \o ":" \o Str(_secret)))),
          auth |-> <<Str(_id), Str(_secret)>>,
          body |-> <<>>]
    ELSE [method |-> "POST", url |-> token_url,
          headers |-> ("Content-Type" :> "application/x-www-form-urlencoded"),
          auth |-> <<>>,
          body |-> <<"form", "grant_type",
                     "urn:ibm:params:oauth:grant-type:apikey", "apikey", apikey>>]

\* a guard that never recognises the token endpoint
IsTokenRequestNever(ad, url) == FALSE

\* token_url and str(url).startswith(str(token_url)), where token_url is
\* None when auth_data is empty (dynamic_token_client.py:146-148)
IsTokenRequest(ad, url) ==
    LET token_url == Get(ad, "token_url")
    IN Truthy(token_url) /\ StartsWith(url, token_url)

\* a refresh check that always fires
NeedsRefreshAlways(token, expiry, t) == TRUE

\* not self._access_token or time.time() >= self._expires_at
NeedsRefresh(token, expiry, t) == ~Truthy(token) \/ t >= expiry

\* a merge in which the construction headers win over the caller's
DispatchHeadersInitWins(init, caller, token) ==
    LET merged == init @@ caller
        authed == Put(merged, "Authorization", Bearer(token))
    IN IF "Content-Type" \in DOMAIN authed
       THEN authed
       ELSE Put(authed, "Content-Type", "application/json")

\* The headers of a dispatched request (dynamic_token_client.py:166-169):
\* self.headers.copy(), updated with the caller's, Authorization overwritten,
\* Content-Type defaulted. self.headers is an httpx.Headers, which compares
\* names without regard to case: a name here stands for all its spellings.
DispatchHeaders(init, caller, token) ==
    LET merged == caller @@ init
        authed == Put(merged, "Authorization", Bearer(token))
    IN IF "Content-Type" \in DOMAIN authed
       THEN authed
       ELSE Put(authed, "Content-Type", "application/json")

\* The depth of request() frames a refresh stacks up before a request goes
\* to the transport: _refresh_token calls super().post / super().get, which
\* call self.request(method, token_url) again, one frame deeper.
RECURSIVE Nesting(_, _, _)
Nesting(ad, url, d) ==
    IF IsTokenRequest(ad, url) \/ d >= MaxDepth THEN d
    ELSE Nesting(ad, TokenRequest(ad).url, d + 1)

\* an except clause that leaves the cache as _refresh_token left it
request_except_keeps(token, expiry) == [token |-> token, expiry |-> expiry]

\* The cache after the except clause of request()
\* (dynamic_token_client.py:158-163)
request_except(token, expiry) == [token |-> NoneV, expiry |-> 0]

Raised(error, depth, answer) ==
    [kind |-> "raised", via |-> "", depth |-> depth, answer |-> answer,
     req |-> NoRequest, error |-> error]

Sent(via, depth, answer, req) ==
    [kind |-> "sent", via |-> via, depth |-> depth, answer |-> answer,
     req |-> req, error |-> ""]

UserRequest(url, h) ==
    [method |-> "GET", url |-> url, headers |-> h, auth |-> <<>>, body |-> <<>>]

\* request() up to the point where it hands a request to the transport or
\* raises (dynamic_token_client.py:142-171, 49-100): a token-endpoint URL
\* passes through; a missing or expired token starts a refresh, whose token
\* request goes out through request() itself; otherwise the request is
\* dispatched with the cached token.
request_begin(r, url, h) ==
    /\ reqs[r].pc = "idle"
    /\ IF IsTokenRequest(auth_data, url)
       THEN /\ wire' = Sent("passthrough", 0, NoAnswer, UserRequest(url, h))
            /\ UNCHANGED <<_access_token, _expires_at, reqs>>
       ELSE IF NeedsRefresh(_access_token, _expires_at, now)
       THEN IF RefreshConfigError(auth_data) # NoneV
            THEN LET c == request_except(_access_token, _expires_at)
                 IN /\ wire' = Raised(RefreshConfigError(auth_data), 0, NoAnswer)
                    /\ _access_token' = c.token
                    /\ _expires_at' = c.expiry
                    /\ UNCHANGED reqs
            ELSE LET treq == TokenRequest(auth_data)
                     d == Nesting(auth_data, treq.url, 1)
                     c == request_except(_access_token, _expires_at)
                 IN IF IsTokenRequest(auth_data, treq.url)
                    THEN /\ wire' = Sent("token", d, NoAnswer, treq)
                         /\ reqs' = [reqs EXCEPT ![r] =
                                [pc |-> "refreshing", url |-> url, headers |-> h]]
                         /\ UNCHANGED <<_access_token, _expires_at>>
                    ELSE /\ wire' = Raised("RecursionError", d, NoAnswer)
                         /\ _access_token' = c.token
                         /\ _expires_at' = c.expiry
                         /\ UNCHANGED reqs
       ELSE /\ wire' = Sent("cache", 0, NoAnswer,
                  UserRequest(url, DispatchHeaders(headers, h, _access_token)))
            /\ UNCHANGED <<_access_token, _expires_at, reqs>>
    /\ UNCHANGED <<now, ticks, auth_data, headers>>
    /\ UNCHANGED outsideDTC

\* What the token endpoint may answer: no answer at all (connection error,
\* timeout), or a status with a body that is JSON text or is not. A JSON
\* body is the dictionary of its fields, each value as its JSON text.
BodyValues(f) ==
    CASE f = "access_token" -> {"", "t1"}
      [] f = "token" -> {"t2"}
      [] f = "expires_in" -> {"60", "120", "null"}

TokenBodies ==
    UNION {{b \in [S -> {"", "t1", "t2", "60", "120", "null"}] :
                \A f \in S : b[f] \in BodyValues(f)} :
           S \in SUBSET {"access_token", "token", "expires_in"}}

TokenResponses ==
    {[kind |-> "error", error |-> e, status_code |-> 0, json |-> Nothing] :
        e \in {"ConnectError", "ReadTimeout"}}
    \cup {[kind |-> "response", error |-> "", status_code |-> sc, json |-> j] :
            sc \in {200, 401}, j \in {Nothing} \cup {Some(b) : b \in TokenBodies}}

\* int(v) on a JSON value: a number converts, null raises TypeError
PyInt(v) ==
    CASE v = "60" -> Some(60)
      [] v = "120" -> Some(120)
      [] OTHER -> Nothing

\* a lifetime that is the default whatever the response reports
ExpiresInDefault(data) == Some(DEFAULT_TOKEN_EXPIRY)

\* int(token_data.get("expires_in", DEFAULT_TOKEN_EXPIRY)), Nothing if it raises
ExpiresIn(data) ==
    IF "expires_in" \in DOMAIN data
    THEN PyInt(data["expires_in"])
    ELSE Some(DEFAULT_TOKEN_EXPIRY)

\* token_data.get("access_token") or token_data.get("token")
BodyToken(data) == PyOr(Get(data, "access_token"), Get(data, "token"))

\* _refresh_token from the answer of the token endpoint to its return
\* (dynamic_token_client.py:102-140): the exception it raises (NoneV if it
\* returns) and the cache it leaves, given the cache it found.
_refresh_token(resp, token, expiry, t) ==
    IF resp.kind = "error"
    THEN [error |-> resp.error, token |-> token, expiry |-> expiry]
    ELSE IF resp.json = Nothing
    THEN [error |-> "JSONDecodeError", token |-> token, expiry |-> expiry]
    ELSE LET token_data == resp.json[1]
             tok == BodyToken(token_data)
             expires_in == ExpiresIn(token_data)
         IN IF Truthy(tok)
            THEN IF expires_in = Nothing
                 THEN [error |-> "TypeError", token |-> tok, expiry |-> expiry]
                 ELSE [error |-> NoneV, token |-> tok,
                       expiry |-> t + expires_in[1] - TOKEN_REFRESH_BUFFER]
            ELSE IF resp.status_code >= 400
                 THEN [error |-> "HTTPStatusError", token |-> tok,
                       expiry |-> expiry]
                 ELSE [error |-> NoneV, token |-> tok, expiry |-> expiry]

\* request() from the answer of the token endpoint to the dispatch of the
\* original request, or to the exception (dynamic_token_client.py:155-171)
request_resume(r, resp) ==
    LET out == _refresh_token(resp, _access_token, _expires_at, now)
        c == request_except(out.token, out.expiry)
    IN
    /\ reqs[r].pc = "refreshing"
    /\ reqs' = [reqs EXCEPT ![r] = IdleReq]
    /\ IF out.error # NoneV
       THEN /\ _access_token' = c.token
            /\ _expires_at' = c.expiry
            /\ wire' = Raised(out.error, 0, resp)
       ELSE /\ _access_token' = out.token
            /\ _expires_at' = out.expiry
            /\ wire' = Sent("refresh", 0, resp,
                   UserRequest(reqs[r].url,
                       DispatchHeaders(headers, reqs[r].headers, out.token)))
    /\ UNCHANGED <<now, ticks, auth_data, headers>>
    /\ UNCHANGED outsideDTC

\* time passes between two steps
DTCTickSteps == {TOKEN_REFRESH_BUFFER \div 2}

DTCTick(d) ==
    /\ ticks < MaxTicks
    /\ ticks' = ticks + 1
    /\ now' = now + d
    /\ UNCHANGED dtcVars
    /\ UNCHANGED outsideDTC

DTCNext ==
    \/ \E r \in ReqIds, url \in RequestUrls, h \in CallerHeaders :
            request_begin(r, url, h)
    \/ \E r \in ReqIds, resp \in TokenResponses : request_resume(r, resp)
    \/ \E d \in DTCTickSteps : DTCTick(d)

SpecDTC == InitDTC /\ [][DTCNext]_vars

\* The answers of the token endpoint that refuse, fail, or carry an
\* access token and nothing else.
PlainTokenResponses ==
    {resp \in TokenResponses :
        \/ resp.kind = "error"
        \/ resp.json = Nothing
        \/ DOMAIN resp.json[1] = {"access_token"}}

\* A client with a working configuration and construction headers of every
\* kind, and callers that pass none of the headers, a header the
\* construction set too, or Authorization and Content-Type of their own.
ConstructionHeaders ==
    {EmptyDict,
     ("Authorization" :> "Basic init" @@ "Accept" :> "text/xml"),
     ("Content-Type" :> "text/xml" @@ "Accept" :> "text/xml")}

RequestHeaders ==
    {EmptyDict,
     ("Accept" :> "text/html"),
     ("Authorization" :> "Basic call" @@ "Content-Type" :> "text/plain")}

InitDispatch ==
    /\ ProviderInit
    /\ \E h \in ConstructionHeaders :
          ClientInit(("token_url" :> TOKEN_URL @@ "apikey" :> "k1"
                      @@ "token_gen_auth_method" :> "jwt"), h)
    /\ ToolInit(NoneV, NoneV, FALSE, EmptyDict)
    /\ RequestInit(NoHeaders, NoEnvironment)
    /\ VerifierIdle
    /\ ManagerIdle

DispatchNext ==
    \/ \E r \in ReqIds, url \in RequestUrls, h \in RequestHeaders :
            request_begin(r, url, h)
    \/ \E r \in ReqIds, resp \in PlainTokenResponses : request_resume(r, resp)
    \/ \E d \in DTCTickSteps : DTCTick(d)

SpecDispatch == InitDispatch /\ [][DispatchNext]_vars

\* ------------------------------------------------- with_header_auth.wrapper
\* Truthiness of an optional string: None and "" are falsy.
TruthyOpt(o) == o # Nothing /\ o[1] # ""

\* url.startswith("http://") or url.startswith("https://")
HasHttpScheme(url) == url \in {"https://h1", "https://env", "https://ctor"}

\* What get_http_headers() returns: the three headers the wrapper reads,
\* each absent or with a value; the authorization value is a scheme prefix
\* followed by a token.
HttpHeaders ==
    [instana_jwt_token : {Nothing, Some(""), Some("jwt1")},
     instana_base_url : {Nothing, Some("https://h1"), Some("ftp://h1")},
     authorization : {Nothing, Some(<<"Bearer ">> \o McpToken("n1")),
                      Some(<<"Basic ">> \o McpToken("n1"))}]

\* os.environ, as far as the wrapper reads it
Environments ==
    [ENABLE_OAUTH : {Nothing, Some("True"), Some("0")},
     INSTANA_BASE_URL : {Nothing, Some("https://env")}]

\* The registry the server fills at start-up: empty, or the provider under
\* "default", seen through its instana_jwt_mapping.
Registries ==
    {EmptyDict} \cup
    {[n \in {"default"} |-> m] :
        m \in {EmptyDict, [k \in {McpToken("n1")} |-> "u1"]}}

\* How an import, a constructor of the SDK or the tool itself may end.
Outcomes == {"ok", "ImportError", "AttributeError", "ValueError"}

\* The API client handed to func, by the credentials it was built from.
ApiClient(source, token, url) == [source |-> source, token |-> token, url |-> url]

\* a resolution that asks the OAuth provider first and lets its answer
\* override the instana-jwt-token header
ResolveHttpProviderFirst(hdrs, env, registry) ==
    LET jwt0 == hdrs.instana_jwt_token
        base0 == hdrs.instana_base_url
        raw == hdrs.authorization
        mcp_auth_token ==
            IF raw # Nothing /\ raw[1][1] = "Bearer "
            THEN Some(Tail(raw[1])) ELSE raw
    IN [http |-> TruthyOpt(jwt0) \/ TruthyOpt(base0) \/ mcp_auth_token # Nothing,
        instana_jwt_token |->
            IF mcp_auth_token # Nothing /\ "default" \in DOMAIN registry
               /\ mcp_auth_token[1] \in DOMAIN registry["default"]
            THEN get_instana_jwt_token(registry["default"], mcp_auth_token[1])
            ELSE jwt0,
        instana_base_url |->
            IF ~TruthyOpt(base0) THEN env.INSTANA_BASE_URL ELSE base0]

\* The header-mode resolution of token and base URL (utils.py:94-151)
ResolveHttp(hdrs, env, registry) ==
    LET jwt0 == hdrs.instana_jwt_token
        base0 == hdrs.instana_base_url
        raw == hdrs.authorization
        mcp_auth_token ==
            IF raw # Nothing /\ raw[1][1] = "Bearer "
            THEN Some(Tail(raw[1])) ELSE raw
        oauth_enabled ==
            Lower(IF env.ENABLE_OAUTH = Nothing THEN "False"
                  ELSE env.ENABLE_OAUTH[1]) = "true"
    IN [http |-> TruthyOpt(jwt0) \/ TruthyOpt(base0) \/ mcp_auth_token # Nothing,
        instana_jwt_token |->
            IF mcp_auth_token # Nothing /\ ~TruthyOpt(jwt0) /\ oauth_enabled
               /\ "default" \in DOMAIN registry
            THEN get_instana_jwt_token(registry["default"], mcp_auth_token[1])
            ELSE jwt0,
        instana_base_url |->
            IF ~TruthyOpt(base0) THEN env.INSTANA_BASE_URL ELSE base0]

\* The error payload of the header mode (utils.py:154-168), NoneV if none
HttpError(res) ==
    IF ~TruthyOpt(res.instana_jwt_token) \/ ~TruthyOpt(res.instana_base_url)
    THEN "HTTP mode detected but missing required configuration: "
         \o (IF ~TruthyOpt(res.instana_jwt_token)
             THEN "instana-jwt-token (or valid OAuth token)" ELSE "")
         \o (IF ~TruthyOpt(res.instana_jwt_token) /\ ~TruthyOpt(res.instana_base_url)
             THEN ", " ELSE "")
         \o (IF ~TruthyOpt(res.instana_base_url)
             THEN "instana-base-url (header or INSTANA_BASE_URL env var)" ELSE "")
    ELSE IF ~HasHttpScheme(res.instana_base_url[1])
    THEN "Instana base URL must start with http:// or https://"
    ELSE NoneV

\* What a stretch of the wrapper ends in: an error payload returned to the
\* caller, or func invoked with an API client.
Return(mode, error) == [kind |-> "return", mode |-> mode, error |-> error,
                        client |-> ApiClient("", "", "")]
Invoke(mode, client) == [kind |-> "invoke", mode |-> mode, error |-> "",
                         client |-> client]

\* The STDIO mode (utils.py:211-269); sdk is how building a new client ends.
Stdio(sdk) ==
    IF ~Truthy(read_token) \/ ~Truthy(base_url)
    THEN Return("stdio", "Authentication failed: Missing credentials "
                \o (IF ~Truthy(read_token)
                    THEN " - INSTANA_JWT_TOKEN is missing" ELSE "")
                \o (IF ~Truthy(base_url)
                    THEN " - INSTANA_BASE_URL is missing" ELSE ""))
    ELSE IF api_attr
    THEN Invoke("stdio", ApiClient("existing", read_token, base_url))
    ELSE IF sdk # "ok"
    THEN Return("stdio", "Authentication error: " \o sdk)
    ELSE Invoke("stdio", ApiClient("constructor", read_token, base_url))

\* The wrapper reaches the end of a stretch.
Proceed(out, http, before) ==
    /\ wrapper' = [pc |-> IF out.kind = "invoke" THEN "in_func" ELSE "idle",
                   mode |-> out.mode, http |-> http]
    /\ invoked' = IF out.kind = "invoke" THEN Append(before, out.client)
                  ELSE before
    /\ returned' = IF out.kind = "invoke" THEN NoReturn
                   ELSE [kind |-> "error", error |-> out.error]

\* wrapper from its call to the first await of func, or to its return
\* (utils.py:81-283). mock: the caller passed an api_client; import_ok: the
\* import of get_http_headers succeeds; sdk: how building the API client
\* from the SDK ends. An ImportError or AttributeError of the header mode
\* is caught at utils.py:208 and execution goes on in the STDIO mode.
wrapper_begin(hdrs, env, mock, import_ok, sdk) ==
    LET res == ResolveHttp(hdrs, env, _auth_provider_registry)
        http == ~mock /\ import_ok /\ res.http
        out ==
            IF mock THEN Invoke("mock", ApiClient("mock", "", ""))
            ELSE IF ~http THEN Stdio(sdk)
            ELSE IF HttpError(res) # NoneV THEN Return("http", HttpError(res))
            ELSE IF sdk = "ok"
            THEN Invoke("http", ApiClient("headers", res.instana_jwt_token[1],
                                          res.instana_base_url[1]))
            ELSE IF sdk \in {"ImportError", "AttributeError"} THEN Stdio(sdk)
            ELSE Return("http", "Authentication error: " \o sdk)
    IN
    /\ wrapper.pc = "idle"
    /\ Proceed(out, http, <<>>)
    /\ UNCHANGED <<read_token, base_url, api_attr, _auth_provider_registry,
                   http_headers, os_environ>>
    /\ UNCHANGED outsideWrapper

\* wrapper from the end of func to its return, or to the next await of func
\* (utils.py:206-280): exc is how func ended.
func_returns(exc) ==
    /\ wrapper.pc = "in_func"
    /\ IF exc = "ok"
       THEN /\ wrapper' = [wrapper EXCEPT !.pc = "idle"]
            /\ returned' = [kind |-> "result", error |-> ""]
            /\ UNCHANGED invoked
       ELSE IF wrapper.mode = "http" /\ exc \in {"ImportError", "AttributeError"}
       THEN Proceed(Stdio("ok"), wrapper.http, invoked)
       ELSE Proceed(Return(wrapper.mode, "Authentication error: " \o exc),
                    wrapper.http, invoked)
    /\ UNCHANGED <<read_token, base_url, api_attr, _auth_provider_registry,
                   http_headers, os_environ>>
    /\ UNCHANGED outsideWrapper

InitWrapper ==
    /\ ProviderInit
    /\ ClientInit(EmptyDict, EmptyDict)
    /\ \E rt \in {NoneV, "rt1"}, bu \in {NoneV, "https://ctor"},
          attr \in BOOLEAN, registry \in Registries :
            ToolInit(rt, bu, attr, registry)
    /\ \E hdrs \in HttpHeaders, env \in Environments : RequestInit(hdrs, env)
    /\ VerifierIdle
    /\ ManagerIdle

WrapperNext ==
    \/ \E mock \in BOOLEAN, import_ok \in BOOLEAN, sdk \in Outcomes :
            wrapper_begin(http_headers, os_environ, mock, import_ok, sdk)
    \/ \E exc \in Outcomes : func_returns(exc)

SpecWrapper == InitWrapper /\ [][WrapperNext]_vars

\* ------------------------------------------------------------ TokenVerifier
\* A JWT is its header's alg and kid, the key that verifies its signature, and its
\* signed payload: each claim absent (Nothing) or present. Times are
\* NumericDate seconds; the scope claim is a string, a sequence of
\* characters.
JwtKeys == {"secret1", "secret2", "pem1", "pem2"}

\* The entries of a JWKS document: the JWK dictionaries, by key id.
Jwks == ("kid1" :> "jwk1" @@ "kid2" :> "jwk2")

\* The algorithm family a key can be used with: HMAC secrets with HS256, PEM
\* public keys with RS256; a JWK dictionary is no key material the
\* library's algorithms take.
KeyAlgorithm(k) ==
    IF k \in {"secret1", "secret2"} THEN "HS256"
    ELSE IF k \in {"pem1", "pem2"} THEN "RS256"
    ELSE "none"

ScopeClaims == {Nothing, Some(<<>>), Some(<<"r">>), Some(<<"r", " ", "w">>),
                Some(<<"r", "w">>)}

Payloads ==
    [sub : {Some("user")},
     aud : {Nothing, Some("aud1"), Some("aud2")},
     exp : {Nothing, Some(TOKEN_REFRESH_BUFFER), Some(TOKEN_TTL)},
     iat : {Nothing, Some(TOKEN_REFRESH_BUFFER + TOKEN_REFRESH_BUFFER \div 2)},
     scope : ScopeClaims]

JwtTokens ==
    {Garbage} \cup
    {[wellformed |-> TRUE, alg |-> KeyAlgorithm(k), kid |-> Nothing, key |-> k,
      payload |-> p] :
        k \in JwtKeys, p \in Payloads}

\* The verifiers of the deployment: the key and algorithm settings with and
\* without a usable combination, an audience or none, required scopes or none.
KeySettings ==
    {[public_key |-> NoneV, algorithm |-> "HS256"],
     [public_key |-> "secret1", algorithm |-> "HS256"],
     [public_key |-> "pem1", algorithm |-> "RS256"],
     [public_key |-> "secret1", algorithm |-> "RS256"],
     [public_key |-> "pem1", algorithm |-> "HS256"]}

Audiences == {NoneV, "aud1"}

RequiredScopes == {<<>>, <<"r">>, <<"r", "w">>}

\* An exception, or none.
NoException == [type |-> NoneV, msg |-> ""]
Raise(type, msg) == [type |-> type, msg |-> msg]

\* The exception classes of PyJWT that derive from InvalidTokenError.
InvalidTokenErrors ==
    {"InvalidTokenError", "DecodeError", "InvalidSignatureError",
     "ExpiredSignatureError", "InvalidAudienceError", "InvalidAlgorithmError",
     "ImmatureSignatureError", "MissingRequiredClaimError"}

\* jwt.get_unverified_header(token) (jwt_auth.py:133)
get_unverified_header(token) ==
    IF ~token.wellformed THEN Raise("DecodeError", "Not enough segments")
    ELSE NoException

\* What the JWKS endpoint answers to a GET: requests.get raises, or the
\* response has an error status, or its body is no JWKS document (a key
\* without kid), or it is a document with some keys.
JwksResponses ==
    {[exc |-> e, keys |-> EmptyDict] :
        e \in {"ConnectionError", "HTTPError", "KeyError"}}
    \cup {[exc |-> NoneV, keys |-> [k \in kids |-> Jwks[k]]] :
            kids \in {{}, {"kid1"}, {"kid1", "kid2"}}}

\* current_time = datetime.now(timezone.utc).timestamp() (jwt_auth.py:80):
\* the clock of the model starts a cache duration after the epoch
CurrentTime(t) == _jwks_cache_duration + t

\* a cache that is never fresh
JwksFreshNever(last, t) == FALSE

\* (current_time - self._last_jwks_fetch) < self._jwks_cache_duration
\* (jwt_auth.py:81)
JwksFresh(last, t) == (CurrentTime(t) - last) < _jwks_cache_duration

\* a fetch that forgets the cached keys when the GET fails
FetchForgets(keys, last, resp, t) ==
    IF JwksFresh(last, t)
    THEN [keys |-> keys, last |-> last, get |-> FALSE, result |-> keys]
    ELSE IF resp.exc # NoneV
    THEN [keys |-> EmptyDict, last |-> last, get |-> TRUE,
          result |-> EmptyDict]
    ELSE [keys |-> resp.keys, last |-> CurrentTime(t), get |-> TRUE,
          result |-> resp.keys]

\* _fetch_jwks_keys (jwt_auth.py:74-96) with a JWKS URI, at time t, the
\* endpoint answering resp should it be asked: the new _jwks_keys and
\* _last_jwks_fetch, whether a GET was sent, and the keys returned
_fetch_jwks_keys(keys, last, resp, t) ==
    IF JwksFresh(last, t)
    THEN [keys |-> keys, last |-> last, get |-> FALSE, result |-> keys]
    ELSE IF resp.exc # NoneV
    THEN [keys |-> keys, last |-> last, get |-> TRUE, result |-> keys]
    ELSE [keys |-> resp.keys, last |-> CurrentTime(t), get |-> TRUE,
          result |-> resp.keys]

\* _get_verification_key (jwt_auth.py:98-114), jwks_keys being what
\* _fetch_jwks_keys returned
_get_verification_key(v, token, jwks_keys) ==
    IF Truthy(v.jwks_uri)
    THEN IF TruthyOpt(token.kid) /\ token.kid[1] \in DOMAIN jwks_keys
         THEN jwks_keys[token.kid[1]]
         ELSE NoneV
    ELSE v.public_key

\* The signature check of jwt.decode (jwt_auth.py:147-150): the header's alg
\* must be among algorithms=[self.algorithm], the key must be of the
\* algorithm's kind, and the signature must verify under it.
verify_signature(token, key, algorithm) ==
    IF token.alg # algorithm
    THEN Raise("InvalidAlgorithmError", "The specified alg value is not allowed")
    ELSE IF KeyAlgorithm(key) = "none"
    THEN Raise("TypeError", "Expecting a PEM-formatted key.")
    ELSE IF KeyAlgorithm(key) # algorithm
    THEN Raise("InvalidKeyError", "Could not parse the provided key.")
    ELSE IF token.key # key
    THEN Raise("InvalidSignatureError", "Signature verification failed")
    ELSE NoException

\* verify_iat (jwt_auth.py:154): an iat later than now is refused
validate_iat(payload, t) ==
    IF payload.iat # Nothing /\ payload.iat[1] > t
    THEN Raise("ImmatureSignatureError", "The token is not yet valid (iat)")
    ELSE NoException

\* an expiry check that lets every token through
validate_exp_skipped(payload, t) == NoException

\* verify_exp (jwt_auth.py:153): an exp not later than now is refused
validate_exp(payload, t) ==
    IF payload.exp # Nothing /\ payload.exp[1] <= t
    THEN Raise("ExpiredSignatureError", "Signature has expired")
    ELSE NoException

\* an audience check that lets every token through
validate_aud_skipped(payload, audience) == NoException

\* verify_aud = bool(self.audience) (jwt_auth.py:151, 155)
validate_aud(payload, audience) ==
    IF ~Truthy(audience) THEN NoException
    ELSE IF payload.aud = Nothing
    THEN Raise("MissingRequiredClaimError", "Token is missing the aud claim")
    ELSE IF payload.aud[1] # audience
    THEN Raise("InvalidAudienceError", "Audience doesn't match")
    ELSE NoException

\* jwt.decode(token, verification_key, algorithms=[self.algorithm],
\* audience=self.audience, options=...) (jwt_auth.py:147-157): the first
\* exception of the signature check and of the claim checks in the
\* library's order (iat, exp, aud), or none and the payload.
jwt_decode(token, key, algorithm, audience, t) ==
    IF verify_signature(token, key, algorithm) # NoException
    THEN verify_signature(token, key, algorithm)
    ELSE IF validate_iat(token.payload, t) # NoException
    THEN validate_iat(token.payload, t)
    ELSE IF validate_exp(token.payload, t) # NoException
    THEN validate_exp(token.payload, t)
    ELSE validate_aud(token.payload, audience)

\* s.split(): the maximal runs of non-blank characters
RECURSIVE SplitFrom(_, _, _)
SplitFrom(s, word, acc) ==
    IF s = <<>> THEN (IF word = "" THEN acc ELSE Append(acc, word))
    ELSE IF Head(s) = " "
    THEN SplitFrom(Tail(s), "", IF word = "" THEN acc ELSE Append(acc, word))
    ELSE SplitFrom(Tail(s), word \o Head(s), acc)

Split(s) == SplitFrom(s, "", <<>>)

\* a scope check satisfied by any one of the required scopes
any_scope(required_scopes, token_scopes) ==
    \E i \in 1..Len(required_scopes) :
        \E j \in 1..Len(token_scopes) : token_scopes[j] = required_scopes[i]

\* all(scope in token_scopes for scope in self.required_scopes)
\* (jwt_auth.py:162)
all_scopes(required_scopes, token_scopes) ==
    \A i \in 1..Len(required_scopes) :
        \E j \in 1..Len(token_scopes) : token_scopes[j] = required_scopes[i]

\* f"{self.required_scopes}": the repr of a list of strings
RECURSIVE ReprItems(_)
ReprItems(l) ==
    IF l = <<>> THEN ""
    ELSE "'" \o Head(l) \o "'"
         \o (IF Tail(l) = <<>> THEN "" ELSE ", " \o ReprItems(Tail(l)))

Repr(l) == "[" \o ReprItems(l) \o "]"

\* The results validate_jwt_token builds (jwt_auth.py:136-205).
Rejected(error) == [valid |-> FALSE, claims |-> <<>>, error |-> error]

\* an acceptance that drops the claims
AcceptedBare(payload) == [valid |-> TRUE, claims |-> <<>>, error |-> NoneV]

Accepted(payload) == [valid |-> TRUE, claims |-> <<payload>>, error |-> NoneV]

MissingScopes(payload, required_scopes) ==
    [valid |-> FALSE, claims |-> <<payload>>,
     error |-> "Missing required scopes: " \o Repr(required_scopes)]

\* The except clauses of validate_jwt_token, in their order
\* (jwt_auth.py:175-205)
ErrorResult(exc, audience) ==
    IF exc.type = "ExpiredSignatureError" THEN Rejected("Token has expired")
    ELSE IF exc.type = "InvalidAudienceError"
    THEN Rejected("Invalid audience. Expected: " \o Str(audience))
    ELSE IF exc.type = "InvalidSignatureError"
    THEN Rejected("Invalid token signature")
    ELSE IF exc.type \in InvalidTokenErrors
    THEN Rejected("Invalid token: " \o exc.msg)
    ELSE Rejected("Validation error: " \o exc.msg)

\* What validate_jwt_token(token) returns at time t (jwt_auth.py:116-205),
\* jwks_keys being what _fetch_jwks_keys returns to it
ValidationResult(v, token, jwks_keys, t) ==
    LET header == get_unverified_header(token)
        verification_key == _get_verification_key(v, token, jwks_keys)
        decoded == jwt_decode(token, verification_key, v.algorithm,
                              v.audience, t)
        payload == token.payload
        token_scopes == Split(IF payload.scope = Nothing THEN <<>>
                              ELSE payload.scope[1])
    IN
    IF header # NoException THEN ErrorResult(header, v.audience)
    ELSE IF ~Truthy(verification_key)
    THEN Rejected("No verification key available")
    ELSE IF decoded # NoException THEN ErrorResult(decoded, v.audience)
    ELSE IF v.required_scopes # <<>>
            /\ ~all_scopes(v.required_scopes, token_scopes)
    THEN MissingScopes(payload, v.required_scopes)
    ELSE Accepted(payload)

\* validate_jwt_token on the token of the request, the JWKS endpoint
\* answering resp should it be asked. The keys are fetched once the header
\* has been parsed, and only with a JWKS URI (jwt_auth.py:75, 100, 133-136).
validate_jwt_token(resp) ==
    LET fetches == /\ get_unverified_header(jwt_token) = NoException
                   /\ Truthy(verifier.jwks_uri)
        fetch == IF fetches
                 THEN _fetch_jwks_keys(_jwks_keys, _last_jwks_fetch, resp, now)
                 ELSE [keys |-> _jwks_keys, last |-> _last_jwks_fetch,
                       get |-> FALSE, result |-> EmptyDict]
    IN
    /\ Len(jwks_gets) < MaxOps
    /\ validation' = ValidationResult(verifier, jwt_token, fetch.result, now)
    /\ validated_at' = Some(now)
    /\ _jwks_keys' = fetch.keys
    /\ _last_jwks_fetch' = fetch.last
    /\ jwks_gets' = IF fetch.get THEN Append(jwks_gets, now) ELSE jwks_gets
    /\ UNCHANGED <<now, ticks, verifier, jwt_token, jwt_claims, credentials>>
    /\ UNCHANGED outsideJWT

\* time passes between two validations
JWTTick(d) ==
    /\ ticks < MaxTicks
    /\ ticks' = ticks + 1
    /\ now' = now + d
    /\ UNCHANGED jwtVars
    /\ UNCHANGED outsideJWT

InitJWT ==
    /\ ProviderInit
    /\ ClientInit(EmptyDict, EmptyDict)
    /\ ToolInit(NoneV, NoneV, FALSE, EmptyDict)
    /\ RequestInit(NoHeaders, NoEnvironment)
    /\ \E k \in KeySettings, a \in Audiences, r \in RequiredScopes :
          TokenVerifierInit(k.public_key, NoneV, a, k.algorithm, r)
    /\ jwt_token \in JwtTokens
    /\ ClaimsInit(NoCredentialClaims)
    /\ ManagerIdle

JWTNext ==
    \/ \E resp \in JwksResponses : validate_jwt_token(resp)
    \/ \E d \in {TOKEN_REFRESH_BUFFER} : JWTTick(d)

SpecJWT == InitJWT /\ [][JWTNext]_vars

\* A verifier configured with a JWKS URI, with and without a static key
\* beside it, and tokens naming no key id, a key id of the first JWKS
\* document only, and one of the second.
JwksTokens ==
    {Garbage} \cup
    {[wellformed |-> TRUE, alg |-> "RS256", kid |-> kid, key |-> "pem1",
      payload |-> [sub |-> Some("user"), aud |-> Nothing, exp |-> Nothing,
                   iat |-> Nothing, scope |-> Nothing]] :
        kid \in {Nothing, Some("kid1"), Some("kid2")}}

InitJWKS ==
    /\ ProviderInit
    /\ ClientInit(EmptyDict, EmptyDict)
    /\ ToolInit(NoneV, NoneV, FALSE, EmptyDict)
    /\ RequestInit(NoHeaders, NoEnvironment)
    /\ \E k \in {NoneV, "pem1"} :
          TokenVerifierInit(k, "https://idp/jwks", NoneV, "RS256", <<>>)
    /\ jwt_token \in JwksTokens
    /\ ClaimsInit(NoCredentialClaims)
    /\ ManagerIdle

JWKSNext ==
    \/ \E resp \in JwksResponses : validate_jwt_token(resp)
    \/ \E d \in {TOKEN_REFRESH_BUFFER, _jwks_cache_duration} : JWTTick(d)

SpecJWKS == InitJWKS /\ [][JWKSNext]_vars

\* ------------------------------------ get_instana_credentials_from_jwt
\* The credential claims of a validated token: each absent, the empty
\* string, or a value. The values differ per claim so that the claim a
\* result was taken from can be told.
CredentialClaims ==
    [instana_token : {Nothing, Some(""), Some("tok-primary")},
     instana_api_token : {Nothing, Some(""), Some("tok-fallback")},
     instana_base_url : {Nothing, Some(""), Some("https://primary")},
     instana_url : {Nothing, Some(""), Some("https://fallback")}]

\* an `or` that looks at its second operand first
OptOrSecondFirst(a, b) == IF TruthyOpt(b) THEN b ELSE a

\* claims.get(k1) or claims.get(k2) (jwt_auth.py:218-219): the first value
\* if it is truthy, else the second, absent (None) included
OptOr(a, b) == IF TruthyOpt(a) THEN a ELSE b

\* get_instana_credentials_from_jwt (jwt_auth.py:207-224): the pair, or
\* Nothing for None
InstanaCredentials(claims) ==
    LET instana_token == OptOr(claims.instana_token, claims.instana_api_token)
        instana_base_url == OptOr(claims.instana_base_url, claims.instana_url)
    IN IF TruthyOpt(instana_token) /\ TruthyOpt(instana_base_url)
       THEN Some(<<instana_token[1], instana_base_url[1]>>)
       ELSE Nothing

get_instana_credentials_from_jwt ==
    /\ credentials' = [called |-> TRUE, value |-> InstanaCredentials(jwt_claims)]
    /\ UNCHANGED <<now, ticks, verifier, jwt_token, validation, validated_at,
                   _jwks_keys, _last_jwks_fetch, jwks_gets, jwt_claims>>
    /\ UNCHANGED outsideJWT

InitCredentials ==
    /\ ProviderInit
    /\ ClientInit(EmptyDict, EmptyDict)
    /\ ToolInit(NoneV, NoneV, FALSE, EmptyDict)
    /\ RequestInit(NoHeaders, NoEnvironment)
    /\ TokenVerifierInit(NoneV, NoneV, NoneV, "RS256", <<>>)
    /\ jwt_token = Garbage
    /\ \E claims \in CredentialClaims : ClaimsInit(claims)
    /\ ManagerIdle

SpecCredentials == InitCredentials /\ [][get_instana_credentials_from_jwt]_vars

\* ------------------------------------------------------ DynamicTokenManager
\* The managers of the deployment: no strategy, another strategy, and the
\* jsessionid strategy with all login fields or with one of them missing
\* (None, or empty).
ManagerConfigs ==
    {<<NoneV, "https://host/login", "user", "pw">>,
     <<"basic", "https://host/login", "user", "pw">>,
     <<"jsessionid", "https://host/login", "user", "pw">>,
     <<"jsessionid", NoneV, "user", "pw">>,
     <<"jsessionid", "https://host/login", "", "pw">>,
     <<"jsessionid", "https://host/login", "user", NoneV>>}

\* What the login endpoint may answer to the POST: the POST raises (no
\* connection, a timeout), or raise_for_status raises for the status, or
\* reading the cookie raises, or the response is a success with or without
\* a JSESSIONID cookie.
LoginResponses ==
    {[exc |-> e, cookie |-> Nothing] :
        e \in {"HTTPStatusError", "ConnectError", "ReadTimeout",
               "TimeoutError", "CookieConflict"}}
    \cup {[exc |-> NoneV, cookie |-> c] :
            c \in {Nothing, Some(""), Some("sess1"), Some("sess2")}}

\* The call returns None (dynamic_token_manager.py:45, 51, 103).
LoginReturnsNone == [kind |-> "None", headers |-> EmptyDict, error |-> ""]

\* a login that hands out a client whatever the answer
LoginResultAlways(resp) ==
    [kind |-> "client",
     headers |-> ("Cookie" :> "JSESSIONID=" \o
                    (IF resp.cookie = Nothing THEN "None" ELSE resp.cookie[1])),
     error |-> ""]

\* What the call returns, given the answer to its login POST
\* (dynamic_token_manager.py:72-103): a client, None, or a raise. The
\* except clauses are tried in their order: HTTPStatusError, RequestError
\* (of which ConnectError and ReadTimeout are instances),
\* asyncio.TimeoutError, ValueError (re-raised), Exception.
LoginResult(resp) ==
    LET raised == IF resp.exc # NoneV THEN resp.exc
                  ELSE IF ~TruthyOpt(resp.cookie) THEN "ValueError"
                  ELSE NoneV
    IN IF raised = NoneV
       THEN [kind |-> "client",
             headers |-> ("Cookie" :> "JSESSIONID=" \o resp.cookie[1]),
             error |-> ""]
       ELSE IF raised = "HTTPStatusError" THEN LoginReturnsNone
       ELSE IF raised \in {"ConnectError", "ReadTimeout"} THEN LoginReturnsNone
       ELSE IF raised = "TimeoutError" THEN LoginReturnsNone
       ELSE IF raised = "ValueError"
       THEN [kind |-> "raised", headers |-> EmptyDict,
             error |-> "JSESSIONID not found - login failed."]
       ELSE LoginReturnsNone

\* get_authenticated_http_client_for_jsessionid up to the login POST or to
\* its early return (dynamic_token_manager.py:40-70)
get_authenticated_http_client_for_jsessionid ==
    /\ login.pc = "idle"
    /\ login.calls < MaxOps
    /\ IF manager.auth_strategy # "jsessionid"
          \/ ~(Truthy(manager.login_url) /\ Truthy(manager.username)
                /\ Truthy(manager.password))
       THEN /\ login' = [pc |-> "idle", calls |-> login.calls + 1,
                         result |-> LoginReturnsNone]
            /\ UNCHANGED login_posts
       ELSE /\ login' = [login EXCEPT !.pc = "posting",
                                      !.calls = login.calls + 1]
            /\ login_posts' = Append(login_posts,
                    [call |-> login.calls + 1, url |-> manager.login_url,
                     data |-> <<manager.username, manager.password>>])
    /\ UNCHANGED manager
    /\ UNCHANGED outsideManager

\* a call that posts the login again when the answer is no success
login_response_retries(resp) ==
    /\ login.pc = "posting"
    /\ IF LoginResult(resp).kind = "client"
       THEN /\ login' = [login EXCEPT !.pc = "idle",
                                      !.result = LoginResult(resp)]
            /\ UNCHANGED login_posts
       ELSE /\ Len(login_posts) < MaxOps + MaxOps
            /\ login_posts' = Append(login_posts, login_posts[Len(login_posts)])
            /\ UNCHANGED login
    /\ UNCHANGED manager
    /\ UNCHANGED outsideManager

\* the same call from the answer to the login POST to its return
\* (dynamic_token_manager.py:72-103)
login_response(resp) ==
    /\ login.pc = "posting"
    /\ login' = [login EXCEPT !.pc = "idle", !.result = LoginResult(resp)]
    /\ UNCHANGED <<manager, login_posts>>
    /\ UNCHANGED outsideManager

\* The clients of the dynamic-token family side by side: a manager, and a
\* DynamicTokenClient with a working configuration.
InitManager ==
    /\ ProviderInit
    /\ \E h \in InitHeaders :
          ClientInit(("token_url" :> TOKEN_URL @@ "apikey" :> "k1"
                      @@ "token_gen_auth_method" :> "jwt"), h)
    /\ ToolInit(NoneV, NoneV, FALSE, EmptyDict)
    /\ RequestInit(NoHeaders, NoEnvironment)
    /\ VerifierIdle
    /\ \E cfg \in ManagerConfigs : ManagerInit(cfg[1], cfg[2], cfg[3], cfg[4])

ManagerNext ==
    \/ get_authenticated_http_client_for_jsessionid
    \/ \E resp \in LoginResponses : login_response(resp)
    \/ \E r \in ReqIds, url \in RequestUrls : request_begin(r, url, EmptyDict)
    \/ \E r \in ReqIds, resp \in PlainTokenResponses : request_resume(r, resp)
    \/ \E d \in DTCTickSteps : DTCTick(d)

SpecManager == InitManager /\ [][ManagerNext]_vars

\* ------------------------------------------------------------------ claims

\* C1: an authorization code is consumed at most once. Once an exchange has
\* succeeded for a code, an exchange_authorization_code call with that code
\* raises "Invalid authorization code", and no step that is such a call
\* mints a token or changes the token map.
C1_CodeConsumedOnce ==
    /\ [](\A code \in consumed :
            ExchangeError(auth_codes, code) = "Invalid authorization code")
    /\ [][\A c \in Clients, code \in consumed :
            exchange_authorization_code(c, code)
                => tokens' = tokens /\ nextToken' = nextToken]_vars

\* C1 witness: a code has been exchanged, a caller presents it again, and
\* the call is rejected.
C1_Witness ==
    \E code \in consumed :
        /\ code \in CodeArgs
        /\ ExchangeError(auth_codes, code) = "Invalid authorization code"
        /\ nextToken > 1

\* C2 (as claimed): once a handle_callback call has looked up a state and
\* returned, successfully or with an upstream failure, the state entry is
\* gone, so that a later handle_callback with the same state raises the
\* invalid-state error.
C2_StateSingleUse ==
    [][\A p \in CbIds, r \in UpstreamResponses :
          handle_callback_resume(p, r)
              => InvalidState(state_mapping', callbacks[p].state)]_vars

\* The instant a record's expiry lies in the past.
PastExpiry(rec, t) == rec.expires_at # Nothing /\ rec.expires_at[1] < t

\* C9: load_access_token returns nothing for an unknown token; for a token
\* whose expiry is in the past it deletes the entry and returns nothing;
\* otherwise it returns the stored record. It never returns a record whose
\* expiry has passed, and a token dropped as expired stays unknown.
C9_LoadAccessToken ==
    /\ [](\A t \in TokenArgs :
            LET r == LoadResult(tokens, t, now) IN
            /\ ~OHas(tokens, t) => r = Nothing
            /\ OHas(tokens, t) /\ PastExpiry(OGet(tokens, t), now) => r = Nothing
            /\ OHas(tokens, t) /\ ~PastExpiry(OGet(tokens, t), now)
                   => r = Some(OGet(tokens, t))
            /\ r # Nothing => ~PastExpiry(r[1], now))
    /\ [](\A t \in dropped : ~OHas(tokens, t) /\ LoadResult(tokens, t, now) = Nothing)
    /\ [][\A t \in TokenArgs :
            load_access_token(t) =>
                IF OHas(tokens, t) /\ PastExpiry(OGet(tokens, t), now)
                THEN ~OHas(tokens', t) /\ t \in dropped'
                ELSE tokens' = tokens]_vars

\* C9 witness: load_access_token has dropped an expired token, and another
\* token is still returned.
C9_Witness ==
    /\ dropped # {}
    /\ \E t \in TokenArgs : LoadResult(tokens, t, now) # Nothing

\* C10 (as claimed): after revoke_token(t) on an MCP token t no provider map
\* holds an entry keyed by t: the access-token record, the downstream-JWT
\* mapping and the upstream-token mapping are all gone.
C10_RevokeClearsAllMaps ==
    [][\A t \in IssuedTokens :
          revoke_token(t) =>
              /\ ~OHas(tokens', t)
              /\ ~(t \in DOMAIN instana_jwt_mapping')
              /\ ~(t \in DOMAIN token_mapping')
              /\ LoadResult(tokens', t, now') = Nothing
              /\ get_instana_jwt_token(instana_jwt_mapping', t) = Nothing]_vars

\* The cached token is present and its expiry lies ahead.
CacheFresh == _access_token \notin {NoneV, ""} /\ now < _expires_at

\* A step in which a request() call sends a token request and waits for
\* the answer, and one in which a waiting call gets its answer.
StartsRefresh ==
    \E r \in ReqIds : reqs[r].pc = "idle" /\ reqs'[r].pc = "refreshing"

EndsRefresh ==
    \E r \in ReqIds : reqs[r].pc = "refreshing" /\ reqs'[r].pc = "idle"

\* A step in which a request() call begins: one that is neither the arrival
\* of an answer nor the passage of time.
IssuesRequest == ~EndsRefresh /\ now' = now

\* C4: a client that holds a token does not refresh again before expires_at.
\* request() sends a token request only when the cached token is absent or
\* the time has reached expires_at; a request issued while the token is
\* present and unexpired goes to the transport without a refresh.
C4_NoRefreshBeforeExpiry ==
    /\ [][StartsRefresh => ~CacheFresh]_vars
    /\ [][IssuesRequest /\ CacheFresh
            => /\ reqs' = reqs
               /\ wire'.kind = "sent"
               /\ wire'.via \in {"cache", "passthrough"}
               /\ _access_token' = _access_token
               /\ _expires_at' = _expires_at]_vars

\* C4 witness: after a refresh time has passed, the expiry is still ahead,
\* and the last request was dispatched with the cached token.
C4_Witness ==
    /\ CacheFresh
    /\ now > 0
    /\ wire.kind = "sent"
    /\ wire.via = "cache"
    /\ wire.req.headers["Authorization"] = Bearer(_access_token)

\* The non-empty access_token and token fields in the body of an answer.
TokenFields(resp) ==
    IF resp.kind = "response" /\ resp.json # Nothing
    THEN {f \in {"access_token", "token"} :
            f \in DOMAIN resp.json[1] /\ resp.json[1][f] # ""}
    ELSE {}

\* The token endpoint did not answer, or answered an error status without
\* a token.
FailedAnswer(resp) ==
    \/ resp.kind = "error"
    \/ resp.kind = "response" /\ resp.status_code >= 400 /\ TokenFields(resp) = {}

\* C5: when the refresh a request() call triggered fails (configuration
\* missing, transport error, timeout, error status without a token), the
\* cached token becomes None and the cached expiry 0, the call raises, and
\* the original request is not handed to the transport.
C5_RefreshFailureClears ==
    /\ [](wire.kind = "raised" => _access_token = NoneV /\ _expires_at = 0)
    /\ [](FailedAnswer(wire.answer) => wire.kind = "raised")
    /\ [](RefreshConfigError(auth_data) # NoneV
            => wire.via \notin {"token", "refresh", "cache"})
    /\ [][EndsRefresh /\ wire'.kind = "raised"
            => _access_token' = NoneV /\ _expires_at' = 0 /\ reqs' # reqs]_vars

\* C5 witness: a refresh has timed out, the call has raised, and the cache
\* is cleared while another request() call is still waiting for its answer.
C5_Witness ==
    /\ wire.kind = "raised"
    /\ wire.error = "ReadTimeout"
    /\ _access_token = NoneV
    /\ _expires_at = 0
    /\ \E r \in ReqIds : reqs[r].pc = "refreshing"

\* The non-empty tokens the token endpoint hands out.
EndpointTokens == {"t1", "t2"}

\* C6 (as claimed): concurrent request() calls that each refresh are still
\* correct. Every dispatched request carries a token that a refresh
\* obtained from the token endpoint, and a refresh that completes leaves in
\* the cache the token and the expiry of its own answer.
C6_ConcurrentRefreshes ==
    /\ [](wire.kind = "sent" /\ wire.via \in {"cache", "refresh"}
            => wire.req.headers["Authorization"]
                   \in {Bearer(t) : t \in EndpointTokens})
    /\ [][EndsRefresh /\ wire'.kind = "sent"
            => /\ TokenFields(wire'.answer) # {}
               /\ _access_token' \in
                    {wire'.answer.json[1][f] : f \in TokenFields(wire'.answer)}
               /\ _expires_at' = now + ExpiresIn(wire'.answer.json[1])[1]
                                     - TOKEN_REFRESH_BUFFER]_vars

\* The URL starts with the configured token URL.
TargetsTokenEndpoint(url) ==
    "token_url" \in DOMAIN auth_data /\ auth_data["token_url"] \in Prefixes(url)

\* C7: request() injects the cached token into every request except one to
\* the token endpoint. A request whose URL starts with the configured
\* token URL goes to the transport as the caller gave it, with no refresh
\* and no change of the cache; the token request of a refresh is such a
\* request, so request() frames nest at most one deep.
C7_TokenEndpointPassThrough ==
    /\ [](wire.depth <= 1)
    /\ [](wire.kind = "sent" /\ wire.via = "token"
            => wire.depth = 1 /\ wire.req = TokenRequest(auth_data))
    /\ [](wire.kind = "sent" /\ TargetsTokenEndpoint(wire.req.url)
            => /\ wire.via \in {"token", "passthrough"}
               /\ wire.via = "passthrough" => wire.req.headers \in CallerHeaders)
    /\ [](wire.kind = "sent" /\ ~TargetsTokenEndpoint(wire.req.url)
            => /\ wire.via \in {"cache", "refresh"}
               /\ wire.req.headers["Authorization"] = Bearer(_access_token))
    /\ [][wire'.via = "passthrough"
            => UNCHANGED <<_access_token, _expires_at, reqs>>]_vars

\* C7 witness: while the token request of a refresh is in flight, a
\* caller's own request to a URL under the token URL has passed through.
C7_Witness ==
    /\ wire.kind = "sent"
    /\ wire.via = "passthrough"
    /\ wire.req.url # TOKEN_URL
    /\ \E r \in ReqIds : reqs[r].pc = "refreshing"

\* C8 (as claimed): whatever the HTTP status of the token endpoint's answer,
\* a body with a non-empty access_token or token field makes the refresh
\* succeed and cache that token, and an error status with no token in the
\* body makes it raise the HTTP status error.
C8_TokenSalvage ==
    /\ [](TokenFields(wire.answer) # {}
            => /\ wire.kind = "sent"
               /\ _access_token \in
                    {wire.answer.json[1][f] : f \in TokenFields(wire.answer)})
    /\ [](wire.answer.kind = "response" /\ wire.answer.status_code >= 400
            /\ TokenFields(wire.answer) = {}
            => wire.kind = "raised" /\ wire.error = "HTTPStatusError")

\* C3 (as claimed): the two credential modes never blend. In a wrapper call
\* that found at least one of the headers instana-jwt-token,
\* instana-base-url and authorization, func is invoked only with an API
\* client built from the header-resolved token and base URL, and the call
\* ends in func's result or in an error payload; the constructor's
\* credentials are not used, whatever exception occurs on the way.
C3_ModesNeverBlend ==
    /\ [](wrapper.http =>
            \A i \in 1..Len(invoked) : invoked[i].source = "headers")
    /\ [](wrapper.http => wrapper.mode = "http" /\ Len(invoked) <= 1)

\* What every revoke_token step leaves alone: a step that changes any of
\* these is a step of another operation.
RevokeFrame ==
    UNCHANGED <<now, nextCode, nextToken, callbacks, state_mapping,
                auth_codes, token_mapping, dropped, failed>>

\* C11: revocation is idempotent. revoke_token on a token that has no
\* access-token record and no JWT mapping (already revoked, or never known)
\* changes no provider map, and after revoke_token(t) the token t is in
\* that condition, so that a second revoke_token(t) changes nothing.
C11_RevokeIdempotent ==
    [][RevokeFrame =>
        \A t \in TokenArgs :
            revoke_token(t)
                => /\ ~OHas(tokens, t) /\ t \notin DOMAIN instana_jwt_mapping
                        => UNCHANGED vars
                   /\ ~OHas(tokens', t)
                   /\ t \notin DOMAIN instana_jwt_mapping'
                   /\ \A u \in TokenArgs \ {t} :
                        /\ OHas(tokens', u) = OHas(tokens, u)
                        /\ (u \in DOMAIN instana_jwt_mapping')
                             = (u \in DOMAIN instana_jwt_mapping)]_vars

\* C11 witness: an issued MCP token has been revoked (it is gone without
\* having expired) and can be presented to revoke_token again.
C11_Witness ==
    \E t \in IssuedTokens :
        /\ ~OHas(tokens, t)
        /\ t \notin dropped
        /\ t \notin DOMAIN instana_jwt_mapping
        /\ t \in TokenArgs

\* C12 (as claimed): a successful exchange of code c that yields MCP token m
\* transfers the pending downstream JWT: get_instana_jwt_token(m) returns
\* the JWT that the handle_callback call which issued c extracted from the
\* upstream response (handle_callback keeps it under token_mapping[c]), and
\* the JWT mapping has no entry keyed by c any more.
C12_JwtTransferred ==
    [][nextToken' # nextToken =>
        \A c \in Clients, code \in IssuedCodes :
            exchange_authorization_code(c, code)
                => /\ get_instana_jwt_token(instana_jwt_mapping',
                                            McpToken(FreshIds[nextToken]))
                        = Some(token_mapping[code][2])
                   /\ code \notin DOMAIN instana_jwt_mapping']_vars

\* An authorization code whose lifetime (5 minutes from the callback) is over.
CodeExpired(code) == auth_codes[code].expires_at[1] < now

\* C13 (as claimed): an expired authorization code is rejected. No
\* exchange_authorization_code call on a code whose expires_at lies in the
\* past succeeds and mints an MCP token.
C13_ExpiredCodeRejected ==
    [][nextToken' # nextToken =>
        \A c \in Clients, code \in IssuedCodes :
            exchange_authorization_code(c, code) /\ code \in DOMAIN auth_codes
                => ~CodeExpired(code)]_vars

\* What handle_callback stores for a completed login.
callbackStores == <<auth_codes, tokens, token_mapping, instana_jwt_mapping,
                    nextCode>>

\* An upstream answer the callback must not accept: a status other than 200,
\* an "error" field, or neither id_token nor access_token.
BadUpstream(response) ==
    \/ response.status_code # 200
    \/ "error" \in DOMAIN response.data
    \/ {"id_token", "access_token"} \cap DOMAIN response.data = {}

\* C14: handle_callback fails hard. Called with an unknown state, or
\* answered by the upstream token endpoint with a non-200 status, an error
\* field or neither id_token nor access_token, it raises and adds no
\* authorization code, no token entry and no token or JWT mapping.
C14_CallbackFailsHard ==
    [][/\ failed' /\ ~failed /\ UNCHANGED callbacks
            => \A p \in CbIds, s \in States :
                 s \notin DOMAIN state_mapping /\ handle_callback_begin(p, s)
                     => UNCHANGED callbackStores
       /\ \A p \in CbIds :
             callbacks[p].pc = "posting" /\ callbacks'[p].pc = "idle"
                 => \A r \in UpstreamResponses :
                      BadUpstream(r) /\ handle_callback_resume(p, r)
                          => failed' /\ UNCHANGED callbackStores]_vars

\* C14 witness: a handle_callback call has raised, and the provider holds no
\* code, no token and no mapping.
C14_Witness ==
    /\ failed
    /\ auth_codes = EmptyDict
    /\ tokens = <<>>
    /\ token_mapping = EmptyDict
    /\ instana_jwt_mapping = EmptyDict
    /\ \E p \in CbIds : callbacks[p].pc = "posting"

\* How a wrapper call may go (no mock client passed): whether the import of
\* get_http_headers succeeds, and how building the API client ends.
WrapperCalls == [import_ok : BOOLEAN, sdk : Outcomes]

\* The call finds request headers that select the HTTP mode.
HttpDetected(call) ==
    /\ call.import_ok
    /\ \/ TruthyOpt(http_headers.instana_jwt_token)
       \/ TruthyOpt(http_headers.instana_base_url)
       \/ http_headers.authorization # Nothing

\* The MCP bearer token of the request, if it carries one.
BearerToken ==
    IF http_headers.authorization # Nothing
       /\ http_headers.authorization[1][1] = "Bearer "
    THEN Some(Tail(http_headers.authorization[1])) ELSE Nothing

OAuthEnabled == os_environ.ENABLE_OAUTH \in {Some("true"), Some("True")}

\* The credentials the resolution order of the HTTP mode prescribes: the
\* header JWT if there is one, else the provider's entry for the MCP bearer
\* token if OAuth is enabled; the header base URL, else the configured one.
ExpectedToken ==
    IF TruthyOpt(http_headers.instana_jwt_token)
    THEN http_headers.instana_jwt_token
    ELSE IF /\ BearerToken # Nothing
            /\ OAuthEnabled
            /\ "default" \in DOMAIN _auth_provider_registry
            /\ BearerToken[1] \in DOMAIN _auth_provider_registry["default"]
    THEN Some(_auth_provider_registry["default"][BearerToken[1]])
    ELSE Nothing

ExpectedUrl ==
    IF TruthyOpt(http_headers.instana_base_url)
    THEN http_headers.instana_base_url
    ELSE os_environ.INSTANA_BASE_URL

Resolved ==
    /\ ExpectedToken # Nothing
    /\ TruthyOpt(ExpectedUrl)
    /\ HasHttpScheme(ExpectedUrl[1])

\* The error payloads that name the token, and those that name the base URL.
NamesToken(msg) ==
    msg \in {"HTTP mode detected but missing required configuration: "
               \o "instana-jwt-token (or valid OAuth token)" \o rest :
             rest \in {"", ", instana-base-url (header or INSTANA_BASE_URL env var)"}}

NamesUrl(msg) ==
    msg \in {"HTTP mode detected but missing required configuration: "
               \o first
               \o "instana-base-url (header or INSTANA_BASE_URL env var)" :
             first \in {"", "instana-jwt-token (or valid OAuth token), "}}
      \cup {"Instana base URL must start with http:// or https://"}

\* The call fails before the tool runs: in the HTTP mode a credential is
\* missing or the base URL is malformed, in the STDIO mode a constructor
\* credential is missing, or building the API client raises.
BeginFails(call) ==
    IF HttpDetected(call)
    THEN ~Resolved \/ call.sdk # "ok"
    ELSE \/ ~Truthy(read_token)
         \/ ~Truthy(base_url)
         \/ ~api_attr /\ call.sdk # "ok"

\* C15 (as claimed): every failure of a wrapped tool call is returned as an
\* error payload. A call whose credential resolution fails, or in which
\* building the API client raises, returns {"error": message} without
\* running the tool; a call in which the tool raises returns
\* {"error": message}; the wrapper never raises.
C15_FailuresAreErrorPayloads ==
    [][/\ \A call \in WrapperCalls :
             /\ BeginFails(call)
             /\ wrapper_begin(http_headers, os_environ, FALSE,
                              call.import_ok, call.sdk)
             => /\ wrapper'.pc = "idle"
                /\ returned'.kind = "error" /\ returned'.error # ""
       /\ \A exc \in Outcomes \ {"ok"} :
             func_returns(exc)
                 => /\ wrapper'.pc = "idle"
                    /\ returned'.kind = "error" /\ returned'.error # ""]_vars

\* C16: the resolution order of the HTTP mode. In a call that detects the
\* HTTP mode, the tool is first invoked only with a client built from the
\* prescribed token (the header JWT as is; else the provider's entry, looked
\* up only for an MCP bearer token with OAuth enabled) and the prescribed
\* base URL (the header's, else the configured default), and only if both
\* are present and the URL starts with http:// or https://; otherwise the
\* call returns an error payload that names what is missing.
C16_HttpResolutionOrder ==
    [][\A call \in WrapperCalls :
         /\ HttpDetected(call)
         /\ wrapper_begin(http_headers, os_environ, FALSE,
                          call.import_ok, call.sdk)
         => IF Resolved
            THEN call.sdk = "ok"
                   => invoked' = <<ApiClient("headers", ExpectedToken[1],
                                             ExpectedUrl[1])>>
            ELSE /\ invoked' = <<>>
                 /\ returned'.kind = "error"
                 /\ ExpectedToken = Nothing => NamesToken(returned'.error)
                 /\ (~TruthyOpt(ExpectedUrl)
                       \/ (ExpectedToken # Nothing
                            /\ ~HasHttpScheme(ExpectedUrl[1])))
                      => NamesUrl(returned'.error)]_vars

\* C16 witness: the tool runs in the HTTP mode with the JWT the provider
\* holds for the MCP bearer token and the configured default base URL.
C16_Witness ==
    /\ wrapper.pc = "in_func" /\ wrapper.mode = "http"
    /\ http_headers.instana_jwt_token = Nothing
    /\ http_headers.instana_base_url = Nothing
    /\ invoked = <<ApiClient("headers", "u1", "https://env")>>

\* ---- TokenVerifier: the token of the request, as a validation at time
\* validated_at saw it
Validated == validated_at # Nothing

SeenAt == validated_at[1]

\* signed with the configured key and algorithm
CorrectlySigned ==
    /\ jwt_token.wellformed
    /\ jwt_token.alg = verifier.algorithm
    /\ jwt_token.key = verifier.public_key

\* signed with the configured algorithm, under another secret
WrongSecret ==
    /\ jwt_token.wellformed
    /\ jwt_token.alg = verifier.algorithm
    /\ verifier.public_key \in JwtKeys
    /\ KeyAlgorithm(verifier.public_key) = verifier.algorithm
    /\ jwt_token.key # verifier.public_key

Unexpired ==
    jwt_token.payload.exp = Nothing \/ jwt_token.payload.exp[1] > SeenAt

ExpInPast ==
    jwt_token.payload.exp # Nothing /\ jwt_token.payload.exp[1] < SeenAt

IssuedInFuture ==
    jwt_token.payload.iat # Nothing /\ jwt_token.payload.iat[1] > SeenAt

AudienceMatches ==
    Truthy(verifier.audience)
        => jwt_token.payload.aud = Some(verifier.audience)

WrongAudience ==
    /\ Truthy(verifier.audience)
    /\ jwt_token.payload.aud # Nothing
    /\ jwt_token.payload.aud[1] # verifier.audience

\* The characters of a scope name.
Chars(w) == CASE w = "r" -> <<"r">> [] w = "w" -> <<"w">>

\* w is one of the space-delimited entries of the string s.
HasEntry(s, w) ==
    \E i \in 1..Len(s) : \E j \in i..Len(s) :
        /\ SubSeq(s, i, j) = Chars(w)
        /\ i = 1 \/ s[i - 1] = " "
        /\ j = Len(s) \/ s[j + 1] = " "

ScopeString ==
    IF jwt_token.payload.scope = Nothing THEN <<>>
    ELSE jwt_token.payload.scope[1]

RequiredScopesPresent ==
    \A i \in 1..Len(verifier.required_scopes) :
        HasEntry(ScopeString, verifier.required_scopes[i])

IsAccepted ==
    /\ validation.valid
    /\ validation.error = NoneV
    /\ validation.claims = <<jwt_token.payload>>

C18_ExpiredRejected ==
    Validated /\ jwt_token.wellformed /\ ExpInPast
        => ~validation.valid /\ validation.error = "Token has expired"

\* C18 (amended): every token that is correctly signed with the configured
\* key and algorithm, not issued in the future, and whose exp lies in the
\* past is rejected with "Token has expired"; a token whose signature does
\* not verify is rejected for its signature before exp is looked at.
C18_ExpiredRejectedAmended ==
    /\ Validated /\ CorrectlySigned /\ ExpInPast /\ ~IssuedInFuture
         => ~validation.valid /\ validation.error = "Token has expired"
    /\ Validated /\ WrongSecret
         => ~validation.valid /\ validation.error # "Token has expired"

\* C18 witness: a correctly signed token was validated after its exp and
\* rejected as expired.
C18_Witness ==
    /\ Validated /\ CorrectlySigned /\ ExpInPast
    /\ validation.error = "Token has expired"

\* The exception a validation ran into, if any.
Failure ==
    IF get_unverified_header(jwt_token) # NoException
    THEN get_unverified_header(jwt_token)
    ELSE IF ~Truthy(verifier.public_key) THEN NoException
    ELSE jwt_decode(jwt_token, verifier.public_key, verifier.algorithm,
                    verifier.audience, SeenAt)

\* The five failure classes, by exception, and the error string of each.
FailureClass(exc) ==
    CASE exc.type = "ExpiredSignatureError" -> "expired"
      [] exc.type = "InvalidAudienceError" -> "audience"
      [] exc.type = "InvalidSignatureError" -> "signature"
      [] exc.type \in InvalidTokenErrors
            \ {"ExpiredSignatureError", "InvalidAudienceError",
               "InvalidSignatureError"} -> "invalid"
      [] OTHER -> "unexpected"

ErrorClass(error) ==
    CASE error = "Token has expired" -> "expired"
      [] error = "Invalid audience. Expected: aud1" -> "audience"
      [] error = "Invalid token signature" -> "signature"
      [] error \in {"Invalid token: Not enough segments",
                    "Invalid token: The specified alg value is not allowed",
                    "Invalid token: The token is not yet valid (iat)",
                    "Invalid token: Token is missing the aud claim"} -> "invalid"
      [] error = "Validation error: Could not parse the provided key."
            -> "unexpected"
      [] OTHER -> "none"

\* Every failure is a result with valid=False and the error string of its
\* class, and a token signed with a wrong secret is refused for its
\* signature.
FailuresReported ==
    /\ Validated /\ Failure # NoException
         => /\ ~validation.valid
            /\ ErrorClass(validation.error) = FailureClass(Failure)
    /\ Validated /\ WrongSecret
         => ~validation.valid /\ validation.error = "Invalid token signature"

\* C19 (as claimed): validate_jwt_token never raises; each failure class is
\* reported with valid=False and its own error string; every token signed
\* with a wrong secret yields the signature error and every (correctly
\* signed) token with a wrong audience yields the audience error.
C19_FailureTaxonomy ==
    /\ FailuresReported
    /\ Validated /\ CorrectlySigned /\ WrongAudience
         => /\ ~validation.valid
            /\ validation.error = "Invalid audience. Expected: aud1"

\* C19 (amended): as C19, with the audience error for every correctly
\* signed token with a wrong audience that is neither expired nor issued in
\* the future; an expired one yields the expiry error.
C19_FailureTaxonomyAmended ==
    /\ FailuresReported
    /\ Validated /\ CorrectlySigned /\ WrongAudience
       /\ Unexpired /\ ~IssuedInFuture
         => /\ ~validation.valid
            /\ validation.error = "Invalid audience. Expected: aud1"
    /\ Validated /\ CorrectlySigned /\ WrongAudience
       /\ ExpInPast /\ ~IssuedInFuture
         => validation.error = "Token has expired"

\* C19 witness: a correctly signed, unexpired token with another audience
\* was rejected with the audience error.
C19_Witness ==
    /\ Validated /\ CorrectlySigned /\ WrongAudience
    /\ jwt_token.payload.exp # Nothing /\ Unexpired
    /\ validation.error = "Invalid audience. Expected: aud1"

\* The token passes the signature and claim checks of the validation.
PassesChecks ==
    /\ CorrectlySigned /\ Unexpired /\ ~IssuedInFuture
    /\ Truthy(verifier.audience)
         => jwt_token.payload.aud = Some(verifier.audience)

MissingScopesError ==
    IF verifier.required_scopes = <<"r">>
    THEN "Missing required scopes: ['r']"
    ELSE "Missing required scopes: ['r', 'w']"

NonEmpty(claim) == claim # Nothing /\ claim[1] # ""

Resolves(primary, fallback) == NonEmpty(primary) \/ NonEmpty(fallback)

ResolvedValue(primary, fallback) ==
    IF NonEmpty(primary) THEN primary[1] ELSE fallback[1]

C21_CredentialsFromClaims ==
    credentials.called =>
        LET hasToken == Resolves(jwt_claims.instana_token,
                                 jwt_claims.instana_api_token)
            hasUrl == Resolves(jwt_claims.instana_base_url,
                               jwt_claims.instana_url)
        IN IF hasToken /\ hasUrl
           THEN credentials.value =
                    Some(<<ResolvedValue(jwt_claims.instana_token,
                                         jwt_claims.instana_api_token),
                           ResolvedValue(jwt_claims.instana_base_url,
                                         jwt_claims.instana_url)>>)
           ELSE credentials.value = Nothing

\* C21 witness: both primary and fallback token claims are present, only
\* the fallback URL claim is, and the call returned the primary token with
\* the fallback URL.
C21_Witness ==
    /\ credentials.called
    /\ NonEmpty(jwt_claims.instana_token)
    /\ NonEmpty(jwt_claims.instana_api_token)
    /\ ~NonEmpty(jwt_claims.instana_base_url)
    /\ credentials.value = Some(<<"tok-primary", "https://fallback">>)

\* C22: the JWKS key cache is refreshed at most once per cache-duration
\* interval: any two HTTP GETs to the JWKS URI are at least
\* _jwks_cache_duration (3600 s) apart, so that a call inside the interval
\* is answered from the cached keys without an HTTP request.
C22_OneFetchPerInterval ==
    \A i \in 1..Len(jwks_gets) : \A j \in 1..Len(jwks_gets) :
        i < j => jwks_gets[j] - jwks_gets[i] >= _jwks_cache_duration

\* The answers of the JWKS endpoint that make the fetch fail.
FailedFetches == {resp \in JwksResponses : resp.exc # NoneV}

\* The validation sent a GET to the JWKS URI.
FetchAttempted == Len(jwks_gets') = Len(jwks_gets) + 1

\* C23: a failed JWKS fetch never propagates and never loses keys: the
\* validation that ran it returns a result, computed with the key set that
\* was cached before, and the cache is left as it was. When the very first
\* fetch fails the cache is empty, and the validation returns valid=False
\* with the no-verification-key error whatever key id the token names.
C23_FailedFetchKeepsKeys ==
    [][\A resp \in FailedFetches :
        validate_jwt_token(resp) /\ FetchAttempted
            => /\ _jwks_keys' = _jwks_keys
               /\ validation' = ValidationResult(verifier, jwt_token,
                                                 _jwks_keys, now)
               /\ validation'.valid \in BOOLEAN
               /\ jwks_gets = <<>>
                    => /\ _jwks_keys' = EmptyDict
                       /\ validation'.valid = FALSE
                       /\ validation'.error = "No verification key available"]_vars

\* C23 witness: keys were fetched, a cache duration later a fetch was
\* attempted and failed, and the keys of the first fetch are still cached.
C23_Witness ==
    /\ Len(jwks_gets) >= 2
    /\ CurrentTime(jwks_gets[Len(jwks_gets)]) > _last_jwks_fetch
    /\ _last_jwks_fetch > 0
    /\ DOMAIN _jwks_keys = {"kid1", "kid2"}
    /\ jwt_token.kid = Some("kid2")
    /\ validation.error # "No verification key available"

\* The manager is configured for the jsessionid login: the strategy is
\* jsessionid and login URL, username and password are all given.
LoginConfigured ==
    /\ manager.auth_strategy = "jsessionid"
    /\ manager.login_url \notin {NoneV, ""}
    /\ manager.username \notin {NoneV, ""}
    /\ manager.password \notin {NoneV, ""}

\* A step that is a new call of get_authenticated_http_client_for_jsessionid.
LoginCalled == login'.calls = login.calls + 1

\* C24: the outcomes of get_authenticated_http_client_for_jsessionid. With a
\* strategy other than jsessionid, or with the login URL, the username or
\* the password missing, the call returns nothing and sends no login
\* request. When the login POST fails (error status, transport error,
\* timeout) the call returns nothing and does not raise. When the login
\* succeeds without a JSESSIONID cookie the call raises. Only a successful
\* login with a cookie returns a client, and that client carries the header
\* Cookie: JSESSIONID=<cookie>.
C24_JsessionidOutcomes ==
    /\ [][LoginCalled /\ ~LoginConfigured
            => /\ login'.pc = "idle"
               /\ login'.result.kind = "None"
               /\ login_posts' = login_posts]_vars
    /\ [][\A resp \in LoginResponses :
            login_response(resp)
                => IF resp.exc # NoneV
                   THEN login'.result.kind = "None"
                   ELSE IF resp.cookie \in {Nothing, Some("")}
                   THEN login'.result.kind = "raised"
                   ELSE /\ login'.result.kind = "client"
                        /\ login'.result.headers =
                            ("Cookie" :> "JSESSIONID=" \o resp.cookie[1])]_vars
    /\ [](login.result.kind = "client"
            => LoginConfigured /\ login_posts # <<>>)

\* C24 witness: two calls each sent a login POST, and the second logged in
\* and returned a client with the session cookie.
C24_Witness ==
    /\ login.calls = 2
    /\ Len(login_posts) = 2
    /\ login.pc = "idle"
    /\ login.result.kind = "client"
    /\ login.result.headers = ("Cookie" :> "JSESSIONID=sess2")

\* The MCP access tokens and the authorization codes a step adds to the
\* provider's maps, and the states it records.
MintedTokens == {t \in OKeys(tokens') \ OKeys(tokens) : t[1] = "mcp_32"}
MintedCodes == DOMAIN auth_codes' \ DOMAIN auth_codes
RecordedStates == DOMAIN state_mapping' \ DOMAIN state_mapping

\* C25: the OAuth flow cannot skip a step. Every step that mints an MCP
\* access token is an exchange_authorization_code call on a code that is
\* stored and that handle_callback issued; every step that stores a code is
\* the completion of a handle_callback call that was waiting for the
\* upstream answer; a handle_callback call gets to wait for the upstream
\* answer only for a state that is recorded; and only authorize records a
\* state. Hence every minted token stands for one consumed code, and every
\* stored or consumed code is one handle_callback issued.
C25_NoStepSkipped ==
    /\ [][/\ \A t \in MintedTokens :
                \E c \in Clients, code \in IssuedCodes :
                    /\ code \in DOMAIN auth_codes
                    /\ exchange_authorization_code(c, code)
          /\ \A code \in MintedCodes :
                \E q \in CbIds :
                    /\ callbacks[q].pc = "posting"
                    /\ \E r \in UpstreamResponses : handle_callback_resume(q, r)
          /\ \A q \in CbIds :
                callbacks[q].pc = "idle" /\ callbacks'[q].pc = "posting"
                    => callbacks'[q].state \in DOMAIN state_mapping
          /\ \A s \in RecordedStates : \E c \in Clients : authorize(c, s)
         ]_vars
    /\ [](/\ DOMAIN auth_codes \cup consumed \subseteq IssuedCodes
          /\ Cardinality(consumed) = nextToken - 1
          /\ \A i \in 1..Len(tokens) :
                tokens[i].key[1] = "mcp_32" => tokens[i].key \in IssuedTokens)

\* C25 witness: the whole flow has run: a state was recorded and used, a
\* code was issued and exchanged, and the minted token is stored.
C25_Witness ==
    /\ consumed # {}
    /\ nextCode > 1
    /\ \E i \in 1..Len(tokens) : tokens[i].key = McpToken(FreshIds[1])

\* A step in which a request() call takes the answer to its token request.
TakesTokenAnswer(r) == reqs[r].pc = "refreshing" /\ reqs'[r].pc = "idle"

\* C26: nothing is retried automatically. A request() call sends its one
\* token request when it starts, and the step that takes the answer sends
\* nothing to the token endpoint: it raises, or it dispatches the caller's
\* request, and either way the call is over. A jsessionid call sends at most
\* one login POST: every POST is sent by the step that starts a call, no two
\* POSTs belong to the same call, and the step that takes the answer to the
\* POST ends the call without another.
C26_NoAutomaticRetry ==
    /\ [][/\ \A r \in ReqIds :
                TakesTokenAnswer(r)
                    => \/ wire'.kind = "raised"
                       \/ /\ wire'.kind = "sent"
                          /\ wire'.via = "refresh"
                          /\ ~IsTokenRequest(auth_data, wire'.req.url)
          /\ \A r \in ReqIds :
                reqs[r].pc = "idle" /\ reqs'[r].pc = "refreshing"
                    => wire'.kind = "sent" /\ wire'.via = "token"
          /\ login_posts' # login_posts
                => LoginCalled /\ Len(login_posts') = Len(login_posts) + 1
          /\ login.pc = "posting" /\ login' # login
                => login'.pc = "idle" /\ login_posts' = login_posts
         ]_vars
    /\ [](/\ Len(login_posts) <= login.calls
          /\ \A i \in 1..Len(login_posts) : \A j \in 1..Len(login_posts) :
                i # j => login_posts[i].call # login_posts[j].call)

\* C26 witness: a token refresh has failed and its request() call has
\* raised, a login has failed and its call has returned nothing, and each
\* call has sent one request.
C26_Witness ==
    /\ wire.kind = "raised"
    /\ wire.answer.kind = "error"
    /\ \A r \in ReqIds : reqs[r].pc = "idle"
    /\ login.pc = "idle"
    /\ login.calls = 1
    /\ Len(login_posts) = 1
    /\ login.result.kind = "None"

\* The headers `out` are the construction headers `init` overridden by the
\* caller's, with Content-Type application/json where neither supplies one
\* and Authorization the bearer form of `token` whatever either supplies.
HeaderPrecedence(out, init, caller, token) ==
    /\ DOMAIN out = DOMAIN init \cup DOMAIN caller
                        \cup {"Authorization", "Content-Type"}
    /\ out["Authorization"] = "Bearer " \o (IF token = NoneV THEN "None" ELSE token)
    /\ \A n \in DOMAIN out \ {"Authorization"} :
            out[n] = IF n \in DOMAIN caller THEN caller[n]
                     ELSE IF n \in DOMAIN init THEN init[n]
                     ELSE "application/json"

\* C27: header precedence in request() for requests that do not go to the
\* token endpoint, whether dispatched with the cached token or after a
\* refresh: the dispatched headers are the construction headers overridden
\* by the caller's; a Content-Type the caller supplies is kept, and
\* application/json is used only when none is supplied; Authorization is
\* always Bearer <cached token>, replacing any value the caller or the
\* construction supplied.
C27_HeaderPrecedence ==
    [][/\ \A r \in ReqIds, url \in RequestUrls, h \in RequestHeaders :
            request_begin(r, url, h) /\ wire'.kind = "sent"
                                     /\ wire'.via = "cache"
                => HeaderPrecedence(wire'.req.headers, headers, h,
                                    _access_token')
       /\ \A r \in ReqIds :
            TakesTokenAnswer(r) /\ wire'.kind = "sent"
                => HeaderPrecedence(wire'.req.headers, headers,
                                    reqs[r].headers, _access_token')
      ]_vars

\* C27 witness: construction and caller both set Accept, neither sets
\* Content-Type nor the caller Authorization, and the request was
\* dispatched with the caller's Accept, the bearer token and
\* application/json.
C27_Witness ==
    /\ headers = ("Authorization" :> "Basic init" @@ "Accept" :> "text/xml")
    /\ wire.kind = "sent"
    /\ wire.via = "cache"
    /\ wire.req.headers = ("Accept" :> "text/html"
                           @@ "Authorization" :> "Bearer t1"
                           @@ "Content-Type" :> "application/json")

\* The lifetime a token response reports, 3600 when it reports none.
ReportedLifetime(body) ==
    IF "expires_in" \in DOMAIN body
    THEN CASE body["expires_in"] = "60" -> 60
           [] body["expires_in"] = "120" -> 120
           [] OTHER -> 0
    ELSE 3600

\* C28: after every successful refresh, that is whenever _refresh_token has
\* obtained a token and returned, expires_at is the time of the refresh
\* plus the lifetime the response reports (3600 when it reports none) minus
\* 60; with a reported lifetime of 60 seconds or less the token is due for
\* renewal at once.
C28_ExpiryFromLifetime ==
    [][\A r \in ReqIds :
        TakesTokenAnswer(r) /\ wire'.kind = "sent" /\ Truthy(_access_token')
            => LET lifetime == ReportedLifetime(wire'.answer.json[1])
               IN /\ _expires_at' = now + lifetime - 60
                  /\ lifetime <= 60 => now >= _expires_at']_vars

\* C28 witness: a refresh was answered with a token and a lifetime of 60
\* seconds; the token is cached and is due for renewal already.
C28_Witness ==
    /\ wire.kind = "sent"
    /\ wire.via = "refresh"
    /\ wire.answer.json # Nothing
    /\ "expires_in" \in DOMAIN wire.answer.json[1]
    /\ wire.answer.json[1]["expires_in"] = "60"
    /\ _access_token = "t1"
    /\ now > 0
    /\ _expires_at = now
    /\ NeedsRefresh(_access_token, _expires_at, now)

\* The configured method string, "" when none is configured.
MethodString ==
    IF "token_gen_auth_method" \in DOMAIN auth_data
    THEN auth_data["token_gen_auth_method"] ELSE ""

\* C29: the shape of the refresh request is selected by the configured
\* method string alone. Every token request the client sends is, with "jwt",
\* a JSON POST carrying the apikey; with "basic", a Basic-authenticated
\* request without body, a POST when token_gen_method is post and a GET
\* otherwise; with any other value, a form-encoded POST with the apikey
\* grant type and the apikey.
C29_ShapeByMethodAlone ==
    wire.kind = "sent" /\ wire.via = "token"
        => IF MethodString = "jwt"
           THEN /\ wire.req.method = "POST"
                /\ wire.req.body # <<>>
                /\ wire.req.body[1] = "json"
                /\ wire.req.body[2] = "apikey"
                /\ wire.req.auth = <<>>
           ELSE IF MethodString = "basic"
           THEN /\ wire.req.method =
                    (IF "token_gen_method" \in DOMAIN auth_data
                        /\ auth_data["token_gen_method"] \in {"post", "POST"}
                     THEN "POST" ELSE "GET")
                /\ wire.req.auth # <<>>
                /\ wire.req.body = <<>>
           ELSE /\ wire.req.method = "POST"
                /\ wire.req.body # <<>>
                /\ wire.req.body[1] = "form"
                /\ wire.req.body[3] = "urn:ibm:params:oauth:grant-type:apikey"
                /\ wire.req.auth = <<>>

\* The positions in self.tokens of the upstream tokens of client c.
UpstreamEntries(c) ==
    {i \in 1..Len(tokens) :
        tokens[i].key[1] = "auth_" /\ tokens[i].val.client_id = c}

\* The entry under which handle_callback stored the upstream token it
\* obtained together with the code.
OwnUpstream(code) == <<"auth_", token_mapping[code][2]>>

C31_JwtOnlyForUsableToken ==
    /\ \A m \in IssuedTokens :
          get_instana_jwt_token(instana_jwt_mapping, m) # Nothing
              => OHas(tokens, m) /\ ~PastExpiry(OGet(tokens, m), now)
    /\ \A m \in dropped :
          get_instana_jwt_token(instana_jwt_mapping, m) = Nothing

\* C32 (as claimed): an authorization code can be exchanged only by the
\* client it was issued to. An exchange_authorization_code(c, code) call
\* that succeeds and mints an MCP token is made by the client whose
\* client_id the code's record holds, and the record of the minted token
\* carries that client_id.
C32_ExchangeByIssuedClient ==
    [][nextToken' # nextToken =>
        \A c \in Clients, code \in IssuedCodes :
            exchange_authorization_code(c, code) /\ code \in DOMAIN auth_codes
                => /\ c = auth_codes[code].client_id
                   /\ OGet(tokens', McpToken(FreshIds[nextToken])).client_id
                        = auth_codes[code].client_id]_vars

\* C33 (as claimed): of two concurrent handle_callback calls with the same
\* state, both suspended at the upstream POST, at most one completes
\* successfully and stores an authorization code. The call that resumes
\* after the other has consumed the state raises, and it adds no
\* authorization code, no token entry and no token or JWT mapping.
C33_ConcurrentCallbacksOneCode ==
    [][\A p \in CbIds :
          /\ callbacks[p].pc = "posting"
          /\ callbacks'[p].pc = "idle"
          /\ callbacks[p].state \notin DOMAIN state_mapping
          => failed' /\ UNCHANGED callbackStores]_vars

\* C34 (as claimed): a refresh failure of one request never discards a
\* token cached by another request's successful refresh. When a request()
\* call's refresh fails while the cache holds a token whose expiry lies
\* ahead (stored by another call's refresh since this one began), the
\* cached token and its expiry stay as they are.
C34_FailureKeepsCachedToken ==
    [][EndsRefresh /\ wire'.kind = "raised" /\ CacheFresh
          => UNCHANGED <<_access_token, _expires_at>>]_vars

\* C35 (as claimed): no request other than a token request reaches the
\* transport without a real token. Every request dispatched with the cached
\* token or after a refresh carries Authorization: Bearer followed by a
\* non-empty token of the token endpoint, and a refresh answered with a
\* success status but no access_token or token field dispatches nothing.
C35_NoDispatchWithoutToken ==
    /\ wire.kind = "sent" /\ wire.via \in {"cache", "refresh"}
          => /\ Truthy(_access_token)
             /\ _access_token \in EndpointTokens
             /\ wire.req.headers["Authorization"] = Bearer(_access_token)
    /\ wire.answer.kind = "response" /\ wire.answer.status_code < 400
         /\ TokenFields(wire.answer) = {}
          => wire.kind # "sent"

\* The configured credential is present: its value, after the resolution
\* of an environment reference, is neither None nor empty.
HasCredential(k) == Truthy(resolve_env_value(Get(auth_data, k)))

\* The credentials the configured method needs: id and secret for "basic",
\* the apikey for "jwt" and for the IAM form request of any other value.
RequiredCredentials ==
    IF MethodString = "basic"
    THEN HasCredential("id") /\ HasCredential("secret")
    ELSE HasCredential("apikey")

ConfigurationErrors ==
    {"Missing auth_data for token refresh.",
     "token_url must be provided in auth_data.",
     "Either apikey or (id and secret) must be provided in auth_data."}

\* C39 (as claimed): a token request is sent only when the credentials the
\* selected method requires are present. With a required credential absent
\* no token request goes out and nothing is dispatched after a refresh or
\* from the cache: a call that needs a refresh raises a configuration
\* error.
C39_CredentialsBeforeRequest ==
    /\ wire.kind = "sent" /\ wire.via = "token" => RequiredCredentials
    /\ ~RequiredCredentials
          => /\ wire.via \notin {"token", "refresh", "cache"}
             /\ wire.kind = "raised" => wire.error \in ConfigurationErrors

\* C36 (as claimed): after exchange_authorization_code has consumed a code,
\* no provider map retains an entry keyed by that code; and in every state
\* each key of the token mapping and of the JWT mapping is a pending
\* authorization code or an MCP token present in the access-token map.
C36_NoOrphanMappings ==
    /\ \A code \in consumed :
          /\ code \notin DOMAIN auth_codes
          /\ code \notin DOMAIN instana_jwt_mapping
          /\ code \notin DOMAIN token_mapping
    /\ \A k \in DOMAIN token_mapping \cup DOMAIN instana_jwt_mapping :
          \/ k \in DOMAIN auth_codes
          \/ k \in IssuedTokens /\ OHas(tokens, k)

\* C37 (as claimed): every result of validate_jwt_token is well-formed.
\* valid is True exactly when error is absent, and a result with valid
\* False has an empty claims mapping: no claims of a rejected token, one
\* rejected for missing scopes included, reach the caller.
C37_ResultWellFormed ==
    validated_at # Nothing
        => /\ validation.valid <=> validation.error = NoneV
           /\ ~validation.valid => validation.claims = <<>>

\* C38 (as claimed): the wrapped tool function is invoked at most once per
\* wrapper call. Whatever exception the credential path or the tool raises,
\* an ImportError or AttributeError of the tool in HTTP mode included, the
\* wrapper does not run the tool a second time with other credentials.
C38_ToolInvokedAtMostOnce ==
    /\ [](Len(invoked) <= 1)
    /\ [][wrapper.pc = "in_func" => invoked' = invoked]_vars

\* An insertion-ordered dictionary and a dictionary without the entry of
\* one key.
OWithout(od, k) == SelectSeq(od, LAMBDA e : e.key # k)
Without(d, k) == [x \in DOMAIN d \ {k} |-> d[x]]

\* The provider's maps hold, for every key but t, what they held.
OtherEntriesKept(t) ==
    /\ OWithout(tokens', t) = OWithout(tokens, t)
    /\ Without(instana_jwt_mapping', t) = Without(instana_jwt_mapping, t)
    /\ Without(token_mapping', t) = Without(token_mapping, t)
    /\ Without(auth_codes', t) = Without(auth_codes, t)
    /\ state_mapping' = state_mapping

\* C40: frame conditions of the provider. revoke_token(t) and
\* load_access_token(t) change no entry other than those keyed by t: the
\* tokens of other keys, the pending states and the pending codes are as
\* they were; and a get_instana_jwt_token call changes no map of the
\* provider at all.
C40_FrameConditions ==
    [][/\ \A t \in TokenArgs :
            revoke_token(t) \/ load_access_token(t) => OtherEntriesKept(t)
       /\ \A t \in TokenArgs :
            call_get_instana_jwt_token(t)
                => UNCHANGED <<state_mapping, auth_codes, tokens,
                               token_mapping, instana_jwt_mapping>>]_vars

\* C40 witness: an MCP token has been revoked while the upstream token
\* entry, the token mapping of its code and a re-recorded state stayed, and
\* get_instana_jwt_token has since been asked for it and found nothing.
C40_Witness ==
    \E m \in IssuedTokens :
        /\ ~OHas(tokens, m)
        /\ m \notin dropped
        /\ tokens # <<>>
        /\ token_mapping # EmptyDict
        /\ state_mapping # EmptyDict
        /\ jwt_lookup = [mcp_token |-> Some(m), value |-> Nothing]

====
